---- MODULE Spec2Model ----
(***************************************************************************)
(* The per-connection network state machine of noisepage                   *)
(* (src/src/network/connection_handle.cpp): ConnectionHandle, its          *)
(* StateMachine (Delta / Accept), the action functions the table refers    *)
(* to, and the reactor (libevent) registrations the handle owns.           *)
(*                                                                         *)
(* One Accept iteration is one step of the model: the table lookup, the    *)
(* assignment of current_state_, the call of the action and the            *)
(* assignment of `next` (with the catch handler) happen together.          *)
(*                                                                         *)
(* Two further components are modelled on their own, each in its own       *)
(* variable and under its own specifications: the disk log consumer task   *)
(* of the write-ahead log                                                  *)
(* (src/src/storage/write_ahead_log/disk_log_consumer_task.cpp) and the    *)
(* raw data of the network metric (src/src/include/metrics/                *)
(* network_metric.h).  The specifications of one component leave the       *)
(* variables of the others as they are.                                    *)
(***************************************************************************)
EXTENDS Integers, FiniteSets, Sequences, TLC

VARIABLES
  handles,   \* the ConnectionHandle objects: fields, and the position of Accept
  events,    \* the reactor's view of each handle's two events (libevent's event base)
  executor,  \* the command executor: an asynchronous command is outstanding
  task,      \* the DiskLogConsumerTask, its queues and its threads
  metric     \* two NetworkMetricRawData objects

vars == <<handles, events, executor, task, metric>>

\* The variables of the connection handles, and those of the other components.
network == <<handles, events, executor>>

others == <<task, metric>>

(***************************************************************************)
(* Enumerations                                                            *)
(***************************************************************************)
Handles == {"c1", "c2"}

ConnState == {"READ", "PROCESS", "WRITE", "CLOSING"}

Transition ==
  {"NONE", "NEED_READ", "NEED_READ_TIMEOUT", "NEED_WRITE", "NEED_RESULT",
   "PROCEED", "TERMINATE", "WAKEUP"}

\* The connection identifiers (socket descriptors) the factory hands out.
ConnIds == {"fd_a", "fd_b"}

\* UnregisterEvent is counted up to this many calls per event.
MaxUnregister == 2

\* num_queries_ of a feature record is counted up to this value ("several").
MaxQueries == 2

\* The interpreter's Teardown is counted up to this many calls per connection.
MaxTeardown == 2

(***************************************************************************)
(* The transition table                                                    *)
(***************************************************************************)
\* `throw std::runtime_error("Undefined transition!")`
Undefined == [state |-> "UNDEFINED", action |-> "throw"]

TR(s, a) == [state |-> s, action |-> a]

TransitionForRead(transition) ==
  CASE transition = "NEED_READ"         -> TR("READ", "WaitForRead")
    [] transition = "NEED_READ_TIMEOUT" -> TR("READ", "WaitForReadWithTimeout")
    [] transition = "NEED_WRITE"        -> TR("READ", "WaitForWrite")
    [] transition = "PROCEED"           -> TR("PROCESS", "Process")
    [] transition = "TERMINATE"         -> TR("CLOSING", "TryCloseConnection")
    [] transition = "WAKEUP"            -> TR("READ", "TryRead")
    [] OTHER                            -> Undefined

\* TransitionForProcess taking a wake-up for more input to decode.
TransitionForProcess_WakeupProcess(transition) ==
  CASE transition = "NEED_READ"         -> TR("READ", "TryRead")
    [] transition = "NEED_READ_TIMEOUT" -> TR("READ", "WaitForReadWithTimeout")
    [] transition = "NEED_RESULT"       -> TR("PROCESS", "WaitForTerrier")
    [] transition = "PROCEED"           -> TR("WRITE", "TryWrite")
    [] transition = "TERMINATE"         -> TR("CLOSING", "TryCloseConnection")
    [] transition = "WAKEUP"            -> TR("PROCESS", "Process")
    [] OTHER                            -> Undefined

TransitionForProcess(transition) ==
  CASE transition = "NEED_READ"         -> TR("READ", "TryRead")
    [] transition = "NEED_READ_TIMEOUT" -> TR("READ", "WaitForReadWithTimeout")
    [] transition = "NEED_RESULT"       -> TR("PROCESS", "WaitForTerrier")
    [] transition = "PROCEED"           -> TR("WRITE", "TryWrite")
    [] transition = "TERMINATE"         -> TR("CLOSING", "TryCloseConnection")
    [] transition = "WAKEUP"            -> TR("PROCESS", "GetResult")
    [] OTHER                            -> Undefined

\* TransitionForWrite going back to READ after a flush.
TransitionForWrite_ToRead(transition) ==
  CASE transition = "NEED_READ"         -> TR("WRITE", "WaitForRead")
    [] transition = "NEED_WRITE"        -> TR("WRITE", "WaitForWrite")
    [] transition = "PROCEED"           -> TR("READ", "TryRead")
    [] transition = "TERMINATE"         -> TR("CLOSING", "TryCloseConnection")
    [] transition = "WAKEUP"            -> TR("WRITE", "TryWrite")
    [] OTHER                            -> Undefined

TransitionForWrite(transition) ==
  CASE transition = "NEED_READ"         -> TR("WRITE", "WaitForRead")
    [] transition = "NEED_WRITE"        -> TR("WRITE", "WaitForWrite")
    [] transition = "PROCEED"           -> TR("PROCESS", "Process")
    [] transition = "TERMINATE"         -> TR("CLOSING", "TryCloseConnection")
    [] transition = "WAKEUP"            -> TR("WRITE", "TryWrite")
    [] OTHER                            -> Undefined

\* TransitionForClosing without the entries for a close that would block.
TransitionForClosing_NoBlock(transition) ==
  CASE transition = "TERMINATE"         -> TR("CLOSING", "TryCloseConnection")
    [] transition = "WAKEUP"            -> TR("CLOSING", "TryCloseConnection")
    [] OTHER                            -> Undefined

\* TransitionForClosing with no entry for a wake-up.
TransitionForClosing_NoWakeup(transition) ==
  CASE transition = "NEED_READ"         -> TR("WRITE", "WaitForRead")
    [] transition = "NEED_WRITE"        -> TR("WRITE", "WaitForWrite")
    [] transition = "TERMINATE"         -> TR("CLOSING", "TryCloseConnection")
    [] OTHER                            -> Undefined

TransitionForClosing(transition) ==
  CASE transition = "NEED_READ"         -> TR("WRITE", "WaitForRead")
    [] transition = "NEED_WRITE"        -> TR("WRITE", "WaitForWrite")
    [] transition = "TERMINATE"         -> TR("CLOSING", "TryCloseConnection")
    [] transition = "WAKEUP"            -> TR("CLOSING", "TryCloseConnection")
    [] OTHER                            -> Undefined

Delta(state, transition) ==
  CASE state = "READ"    -> TransitionForRead(transition)
    [] state = "PROCESS" -> TransitionForProcess(transition)
    [] state = "WRITE"   -> TransitionForWrite(transition)
    [] state = "CLOSING" -> TransitionForClosing(transition)
    [] OTHER             -> Undefined

(***************************************************************************)
(* The objects                                                             *)
(***************************************************************************)
\* A handle as its constructor leaves it.  pc is the position of the owning
\* thread in the handle: "new" (constructed or reset, not yet registered),
\* "idle" (parked in the reactor), "accept" (inside StateMachine::Accept),
\* "fatal" (an error left HandleEvent), "absent" (never constructed).
\* next is Accept's local variable.  The remaining fields record what
\* happened: act is the action function called last, caught that its
\* exception was caught, faulted the first action of the connection whose
\* exception was caught, emit the feature records the last action emitted,
\* unreg_* the calls of UnregisterEvent, reused that the handle was reset,
\* initial the transition Accept was last called with, wrote that the last
\* action called FlushAllWrites, closing that TryCloseConnection was called
\* for the connection, teardowns the calls of the interpreter's Teardown
\* for the connection, pipeline and async how far a pipelined request and an
\* asynchronous command have come (NextPipeline, NextAsync).
NewHandle(sock_fd) ==
  [pc                   |-> "new",
   current_state_       |-> "READ",
   next                 |-> "NONE",
   network_event_       |-> "nullptr",
   workpool_event_      |-> "nullptr",
   io_closed            |-> FALSE,
   flush_read_features_ |-> FALSE,
   read_queries         |-> 0,
   write_queries        |-> 0,
   connection_id_       |-> sock_fd,
   act                  |-> "none",
   caught               |-> FALSE,
   faulted              |-> "none",
   emit                 |-> "none",
   unreg_network        |-> 0,
   unreg_workpool       |-> 0,
   reused               |-> FALSE,
   initial              |-> "none",
   wrote                |-> FALSE,
   closing              |-> FALSE,
   teardowns            |-> 0,
   pipeline             |-> "none",
   async                |-> "none"]

\* The two events of a handle in the event base, before they are registered
\* and after they are freed.
NoEvents ==
  [net_live    |-> FALSE,   \* the network event exists in the event base
   net_flags   |-> "READ",  \* the readiness it was last assigned
   net_added   |-> FALSE,   \* event_add'ed: it can fire
   net_timeout |-> FALSE,   \* added with a timeout
   work_live   |-> FALSE,   \* the manual event exists
   work_active |-> FALSE]   \* event_active'd and not yet delivered

Min(a, b) == IF a < b THEN a ELSE b

\* The result of an action function: the handle, its events, the executor's
\* flag and the transition returned ("FAULT": a NetworkProcessException
\* was raised, "CRASH": the process died).
Ret(c, e, x, t) == [c |-> c, e |-> e, x |-> x, t |-> t]

\* What a use of an event that is not in the event base any more (a dangling
\* or null pointer) can do.
UBOutcomes == {"noeffect", "crash"}

(***************************************************************************)
(* The collaborators: what the IoWrapper and the ProtocolInterpreter may   *)
(* return, and the sampling hook.  "FAULT" is a NetworkProcessException.   *)
(***************************************************************************)
Documented ==
  [fill    |-> {"NEED_READ", "NEED_READ_TIMEOUT", "NEED_WRITE", "PROCEED", "TERMINATE", "FAULT"},
   flush   |-> {"NEED_READ", "NEED_WRITE", "PROCEED", "TERMINATE", "FAULT"},
   process |-> {"NEED_READ", "NEED_READ_TIMEOUT", "NEED_RESULT", "PROCEED", "TERMINATE", "FAULT"},
   close   |-> {"NEED_READ", "NEED_WRITE", "PROCEED", "TERMINATE", "FAULT"},
   hook    |-> BOOLEAN,     \* do_a_metrics_thing, evaluated at each call
   queries |-> {0, 1}]      \* the queries one Process call counts

\* The same with no metrics store on the thread: nothing is sampled or counted.
Unsampled == [Documented EXCEPT !.hook = {FALSE}, !.queries = {0}]

\* Collaborators that do not keep to their documented outcomes.
Misbehaving ==
  [fill    |-> Transition \cup {"FAULT"},
   flush   |-> Transition \cup {"FAULT"},
   process |-> Transition \cup {"FAULT"},
   close   |-> Transition \cup {"FAULT"},
   hook    |-> BOOLEAN,
   queries |-> {0, 1}]

(***************************************************************************)
(* The action functions                                                    *)
(***************************************************************************)
\* UpdateEvent that leaves a timeout armed once it was armed.
UpdateEventFlags_KeepTimeout(c, e, x, flags, timeout, ub) ==
  Ret(c, [e EXCEPT !.net_flags = flags, !.net_added = TRUE, !.net_timeout = @ \/ timeout],
      x, "NONE")

\* conn_handler_task_->UpdateEvent(network_event_, fd, flags, cb, this, timeout):
\* delete, re-assign and add the event again.
UpdateEventFlags(c, e, x, flags, timeout, ub) ==
  IF c.network_event_ = "event" /\ e.net_live
  THEN Ret(c, [e EXCEPT !.net_flags = flags, !.net_added = TRUE, !.net_timeout = timeout],
           x, "NONE")
  ELSE Ret(c, e, x, IF ub = "crash" THEN "CRASH" ELSE "NONE")

WaitForRead(c, e, x, ub) == UpdateEventFlags(c, e, x, "READ", FALSE, ub)

WaitForWrite(c, e, x, ub) == UpdateEventFlags(c, e, x, "WRITE", FALSE, ub)

WaitForReadWithTimeout(c, e, x, ub) == UpdateEventFlags(c, e, x, "READ", TRUE, ub)

\* StopReceivingNetworkEvent leaving the event added.
StopReceivingNetworkEvent_Noop(c, e, x, ub) == Ret(c, e, x, "NONE")

\* EventUtil::EventDel(network_event_)
StopReceivingNetworkEvent(c, e, x, ub) ==
  IF c.network_event_ = "event" /\ e.net_live
  THEN Ret(c, [e EXCEPT !.net_added = FALSE, !.net_timeout = FALSE], x, "NONE")
  ELSE Ret(c, e, x, IF ub = "crash" THEN "CRASH" ELSE "NONE")

WaitForTerrier(c, e, x, ub) == StopReceivingNetworkEvent(c, e, x, ub)

\* The block emitting the read record whatever it counts.
FlushReadFeatures_Always(c) ==
  IF c.flush_read_features_
  THEN [c EXCEPT !.emit = "READ", !.flush_read_features_ = FALSE, !.read_queries = 0]
  ELSE [c EXCEPT !.emit = "none"]

\* The block `if (flush_read_features_) { ... }` of TryRead and TryWrite: the
\* read record is emitted when it counts one query, and reset.
FlushReadFeatures(c) ==
  IF c.flush_read_features_
  THEN [c EXCEPT !.emit = IF c.read_queries = 1 THEN "READ" ELSE "none",
                 !.flush_read_features_ = FALSE,
                 !.read_queries = 0]
  ELSE [c EXCEPT !.emit = "none"]

\* TryRead returning PROCEED from its profiled branch.
TryRead_ProfiledProceeds(c, e, x, hook, r) ==
  IF hook /\ r # "FAULT"
  THEN Ret([FlushReadFeatures(c) EXCEPT !.flush_read_features_ = TRUE], e, x, "PROCEED")
  ELSE Ret(FlushReadFeatures(c), e, x, r)

\* hook: do_a_metrics_thing; r: what FillReadBuffer returns or raises.
TryRead(c, e, x, hook, r) ==
  LET c1 == FlushReadFeatures(c) IN
  IF hook /\ r # "FAULT"
  THEN Ret([c1 EXCEPT !.flush_read_features_ = TRUE], e, x, r)
  ELSE Ret(c1, e, x, r)

\* TryWrite flushing without asking ShouldFlush.
TryWrite_AlwaysFlush(c, e, x, should_flush, hook, r) ==
  Ret([FlushReadFeatures(c) EXCEPT !.wrote = TRUE], e, x, r)

\* should_flush: io_wrapper_->ShouldFlush(); r: what FlushAllWrites returns or raises.
TryWrite(c, e, x, should_flush, hook, r) ==
  IF ~should_flush
  THEN Ret([c EXCEPT !.emit = "none", !.wrote = FALSE], e, x, "PROCEED")
  ELSE LET c1 == [FlushReadFeatures(c) EXCEPT !.wrote = TRUE] IN
       IF hook /\ r # "FAULT"
       THEN Ret([c1 EXCEPT !.emit = IF c1.write_queries = 1
                                    THEN (IF c1.emit = "READ" THEN "READ_WRITE" ELSE "WRITE")
                                    ELSE c1.emit,
                           !.write_queries = 0],
                e, x, r)
       ELSE Ret(c1, e, x, r)

\* r: what the interpreter's Process returns or raises; q: the queries it
\* counted in the feature records of the context.  NEED_RESULT leaves a
\* command with the executor.
Process(c, e, x, r, q) ==
  Ret([c EXCEPT !.emit = "none",
                !.read_queries = Min(@ + q, MaxQueries),
                !.write_queries = Min(@ + q, MaxQueries)],
      e, x \/ r = "NEED_RESULT", r)

\* GetResult without the EventAdd.
GetResult_NoRearm(c, e, x, ok, ub) ==
  Ret([c EXCEPT !.emit = "none"], e, x, IF ok THEN "PROCEED" ELSE "FAULT")

\* ok: the interpreter's GetResult returns (or raises).
GetResult(c, e, x, ok, ub) ==
  LET c1 == [c EXCEPT !.emit = "none"] IN
  IF c.network_event_ = "event" /\ e.net_live
  THEN Ret(c1, [e EXCEPT !.net_added = TRUE, !.net_timeout = FALSE], x,
           IF ok THEN "PROCEED" ELSE "FAULT")
  ELSE Ret(c1, e, x, IF ub = "crash" THEN "CRASH" ELSE IF ok THEN "PROCEED" ELSE "FAULT")

\* TryCloseConnection forgetting the manual event.
UnregisterBoth_NetworkOnly(c, e, x, ub) ==
  Ret([c EXCEPT !.io_closed = TRUE, !.unreg_network = @ + 1],
      [NoEvents EXCEPT !.work_live = e.work_live, !.work_active = e.work_active],
      x, "NONE")

\* conn_handler_task_->UnregisterEvent(network_event_) and (workpool_event_):
\* the events leave the event base and are freed; the handle keeps its pointers.
UnregisterBoth(c, e, x, ub) ==
  LET c1 == [c EXCEPT !.io_closed = TRUE,
                      !.unreg_network = @ + 1,
                      !.unreg_workpool = @ + 1] IN
  IF e.net_live /\ e.work_live
  THEN Ret(c1, NoEvents, x, "NONE")
  ELSE Ret(c1, NoEvents, x, IF ub = "crash" THEN "CRASH" ELSE "NONE")

\* TryCloseConnection removing the events before it looks at what Close returned.
TryCloseConnection_UnregisterFirst(c, e, x, teardown_ok, r, ub) ==
  LET c1 == [c EXCEPT !.emit = "none", !.closing = TRUE,
                      !.teardowns = Min(@ + 1, MaxTeardown)] IN
  IF ~teardown_ok THEN Ret(c1, e, x, "FAULT")
  ELSE LET u == Ret([c1 EXCEPT !.unreg_network = Min(@ + 1, MaxUnregister),
                               !.unreg_workpool = Min(@ + 1, MaxUnregister)],
                    NoEvents, x, "NONE") IN
       IF r # "PROCEED" THEN [u EXCEPT !.t = r]
       ELSE [u EXCEPT !.c.io_closed = TRUE]

\* TryCloseConnection that stops the interpreter on its first call for the
\* connection only.
TryCloseConnection_TeardownOnce(c, e, x, teardown_ok, r, ub) ==
  LET c1 == [c EXCEPT !.emit = "none", !.closing = TRUE,
                      !.teardowns = IF c.closing THEN @ ELSE Min(@ + 1, MaxTeardown)] IN
  IF ~teardown_ok /\ ~c.closing THEN Ret(c1, e, x, "FAULT")
  ELSE IF r # "PROCEED" THEN Ret(c1, e, x, r)
  ELSE UnregisterBoth(c1, e, x, ub)

\* teardown_ok: the interpreter's Teardown returns (or raises); r: what
\* io_wrapper_->Close() returns or raises.
TryCloseConnection(c, e, x, teardown_ok, r, ub) ==
  LET c1 == [c EXCEPT !.emit = "none", !.closing = TRUE,
                      !.teardowns = Min(@ + 1, MaxTeardown)] IN
  IF ~teardown_ok THEN Ret(c1, e, x, "FAULT")
  ELSE IF r # "PROCEED" THEN Ret(c1, e, x, r)
  ELSE UnregisterBoth(c1, e, x, ub)

(***************************************************************************)
(* StateMachine::Accept, one iteration per step                            *)
(***************************************************************************)
\* A handler that swallows the exception: the loop ends.
AcceptNext_Swallow(t) == IF t = "FAULT" THEN "NONE" ELSE t

\* Accept without the handler: the exception leaves it.
AcceptNext_NoCatch(t) == IF t = "FAULT" THEN "CRASH" ELSE t

\* The assignment of `next` in the loop body: the action's return value, or
\* TERMINATE when the action raised a NetworkProcessException (the catch
\* handler).  "CRASH" is not a value of `next`: the process died in the action.
AcceptNext(t) == IF t = "FAULT" THEN "TERMINATE" ELSE t

\* The first action of the connection whose exception was caught.
Origin(action) == IF action = "Process" THEN "Process" ELSE "other"

\* How far a pipelined request has come in this call of Accept: TryRead
\* returned PROCEED ("read"), then Process returned PROCEED ("read_process"),
\* then TryWrite flushed and returned PROCEED ("read_process_write"), then
\* Process was called again ("pipelined").
NextPipeline(p, action, wrote, nx) ==
  CASE p = "read" /\ action = "Process" /\ nx = "PROCEED"                   -> "read_process"
    [] p = "read_process" /\ action = "TryWrite" /\ wrote /\ nx = "PROCEED" -> "read_process_write"
    [] p = "read_process_write" /\ action = "Process"                       -> "pipelined"
    [] action = "TryRead" /\ nx = "PROCEED"                                 -> "read"
    [] OTHER                                                                -> "none"

\* How far an asynchronous command has come: Process returned NEED_RESULT
\* ("pending"), WaitForTerrier returned ("waiting"), HandleEvent delivered
\* WAKEUP ("woken", see Accept), GetResult returned PROCEED ("result"),
\* TryWrite was called ("written").
NextAsync(a, action, nx) ==
  CASE action = "Process" /\ nx = "NEED_RESULT"                    -> "pending"
    [] a = "pending" /\ action = "WaitForTerrier" /\ nx = "NONE"    -> "waiting"
    [] a = "woken" /\ action = "GetResult" /\ nx = "PROCEED"        -> "result"
    [] a = "result" /\ action = "TryWrite"                          -> "written"
    [] OTHER                                                        -> "none"

\* The end of one iteration whose lookup gave the action `action`, run on the
\* handle with current_state_ already assigned, and whose call gave `r`.
AcceptIteration(h, action, r) ==
  LET nx == AcceptNext(r.t) IN
  /\ handles' = [handles EXCEPT ![h] =
       IF nx \notin Transition
       THEN [r.c EXCEPT !.pc = "fatal", !.act = action]
       ELSE [r.c EXCEPT !.act      = action,
                        !.next     = nx,
                        !.caught   = (r.t = "FAULT"),
                        !.faulted  = IF r.t = "FAULT" /\ @ = "none" THEN Origin(action) ELSE @,
                        !.pc       = IF nx = "NONE" THEN "idle" ELSE "accept",
                        !.wrote    = (action = "TryWrite" /\ @),
                        !.pipeline = NextPipeline(@, action, action = "TryWrite" /\ r.c.wrote, nx),
                        !.async    = NextAsync(@, action, nx)]]
  /\ events' = [events EXCEPT ![h] = r.e]
  /\ executor' = [executor EXCEPT ![h] = r.x]
  /\ UNCHANGED others

\* The entry of Accept(action, handle): `next = action` and the first test of
\* `while (next != Transition::NONE)`.
Accept(c, action) ==
  [c EXCEPT !.initial  = action,
            !.next     = action,
            !.pc       = IF action = "NONE" THEN @ ELSE "accept",
            !.pipeline = "none",
            !.async    = IF @ = "waiting" /\ action = "WAKEUP" THEN "woken" ELSE "none"]

\* The handle in the loop, its lookup, and the handle after
\* `current_state_ = result.first`.
InAccept(h) ==
  /\ \A g \in Handles : handles[g].pc # "fatal"
  /\ handles[h].pc = "accept"
  /\ handles[h].next # "NONE"

Lookup(h) == Delta(handles[h].current_state_, handles[h].next)

\* The action called before current_state_ is assigned.
Entered_Late(h) == handles[h]

Entered(h) == [handles[h] EXCEPT !.current_state_ = Lookup(h).state]

\* Accept with the lookup inside the try block and a handler for every
\* exception: the error becomes TERMINATE.
AcceptUndefined_Caught(h) ==
  /\ InAccept(h)
  /\ Lookup(h) = Undefined
  /\ handles' = [handles EXCEPT ![h].next = "TERMINATE", ![h].caught = TRUE]
  /\ UNCHANGED <<events, executor, others>>

\* Accept cleaning up after the error: it enters CLOSING and removes the
\* events before the error leaves it.
AcceptUndefined_Cleanup(h) ==
  /\ InAccept(h)
  /\ Lookup(h) = Undefined
  /\ handles' = [handles EXCEPT ![h].pc = "fatal", ![h].current_state_ = "CLOSING"]
  /\ events' = [events EXCEPT ![h] = NoEvents]
  /\ UNCHANGED <<executor, others>>

\* Delta throws: the std::runtime_error is raised outside the try block and is
\* no NetworkProcessException, so it leaves Accept and HandleEvent.
AcceptUndefined(h) ==
  /\ InAccept(h)
  /\ Lookup(h) = Undefined
  /\ handles' = [handles EXCEPT ![h].pc = "fatal"]
  /\ UNCHANGED <<events, executor, others>>

AcceptWaitForRead(h) ==
  /\ InAccept(h)
  /\ Lookup(h).action = "WaitForRead"
  /\ \E ub \in UBOutcomes :
       AcceptIteration(h, "WaitForRead", WaitForRead(Entered(h), events[h], executor[h], ub))

AcceptWaitForWrite(h) ==
  /\ InAccept(h)
  /\ Lookup(h).action = "WaitForWrite"
  /\ \E ub \in UBOutcomes :
       AcceptIteration(h, "WaitForWrite", WaitForWrite(Entered(h), events[h], executor[h], ub))

AcceptWaitForReadWithTimeout(h) ==
  /\ InAccept(h)
  /\ Lookup(h).action = "WaitForReadWithTimeout"
  /\ \E ub \in UBOutcomes :
       AcceptIteration(h, "WaitForReadWithTimeout",
                       WaitForReadWithTimeout(Entered(h), events[h], executor[h], ub))

AcceptWaitForTerrier(h) ==
  /\ InAccept(h)
  /\ Lookup(h).action = "WaitForTerrier"
  /\ \E ub \in UBOutcomes :
       AcceptIteration(h, "WaitForTerrier", WaitForTerrier(Entered(h), events[h], executor[h], ub))

AcceptTryRead(h, E) ==
  /\ InAccept(h)
  /\ Lookup(h).action = "TryRead"
  /\ \E hook \in E.hook, r \in E.fill :
       AcceptIteration(h, "TryRead", TryRead(Entered(h), events[h], executor[h], hook, r))

AcceptTryWrite(h, E) ==
  /\ InAccept(h)
  /\ Lookup(h).action = "TryWrite"
  /\ \E should_flush \in BOOLEAN, hook \in E.hook, r \in E.flush :
       AcceptIteration(h, "TryWrite",
                       TryWrite(Entered(h), events[h], executor[h], should_flush, hook, r))

AcceptProcess(h, E) ==
  /\ InAccept(h)
  /\ Lookup(h).action = "Process"
  /\ \E r \in E.process, q \in E.queries :
       AcceptIteration(h, "Process", Process(Entered(h), events[h], executor[h], r, q))

AcceptGetResult(h) ==
  /\ InAccept(h)
  /\ Lookup(h).action = "GetResult"
  /\ \E ok \in BOOLEAN, ub \in UBOutcomes :
       AcceptIteration(h, "GetResult", GetResult(Entered(h), events[h], executor[h], ok, ub))

AcceptTryCloseConnection(h, E) ==
  /\ InAccept(h)
  /\ Lookup(h).action = "TryCloseConnection"
  /\ \E teardown_ok \in BOOLEAN, r \in E.close, ub \in UBOutcomes :
       AcceptIteration(h, "TryCloseConnection",
                       TryCloseConnection(Entered(h), events[h], executor[h], teardown_ok, r, ub))

(***************************************************************************)
(* The reactor thread, the executor and the handle factory                 *)
(***************************************************************************)
\* No error has left a callback (which ends the process).
NoCrash == \A h \in Handles : handles[h].pc # "fatal"

\* The reactor runs one callback at a time.
ReactorIdle == NoCrash /\ \A h \in Handles : handles[h].pc # "accept"

\* HandleEvent comparing the flags with EV_TIMEOUT instead of testing the bit.
HandleEvent_TimeoutOnly(c, flags) ==
  Accept(c, IF flags = {"EV_TIMEOUT"} THEN "TERMINATE" ELSE "WAKEUP")

\* HandleEvent ignoring the timeout flag.
HandleEvent_IgnoreTimeout(c, flags) == Accept(c, "WAKEUP")

\* HandleEvent(fd, flags): the transition Accept is started with.
HandleEvent(c, flags) ==
  Accept(c, IF "EV_TIMEOUT" \in flags THEN "TERMINATE" ELSE "WAKEUP")

RegisterToReceiveEvents(h) ==
  /\ ReactorIdle
  /\ handles[h].pc = "new"
  /\ handles' = [handles EXCEPT ![h].pc = "idle",
                                ![h].network_event_ = "event",
                                ![h].workpool_event_ = "event"]
  /\ events' = [events EXCEPT ![h] =
       [net_live |-> TRUE, net_flags |-> "READ", net_added |-> TRUE, net_timeout |-> FALSE,
        work_live |-> TRUE, work_active |-> FALSE]]
  /\ UNCHANGED <<executor, others>>

\* The flags libevent can deliver for the network event as it is armed.
NetworkFlags(e) ==
  LET ready == IF e.net_flags = "READ" THEN "EV_READ" ELSE "EV_WRITE" IN
  {{ready}} \cup (IF e.net_timeout THEN {{"EV_TIMEOUT"}, {ready, "EV_TIMEOUT"}} ELSE {})

\* The socket became ready or the timeout passed.
ReactorNetworkEvent(h) ==
  /\ ReactorIdle
  /\ handles[h].pc = "idle"
  /\ events[h].net_live /\ events[h].net_added
  /\ \E flags \in NetworkFlags(events[h]) :
       handles' = [handles EXCEPT ![h] = HandleEvent(@, flags)]
  /\ UNCHANGED <<events, executor, others>>

\* The manual event was activated.
ReactorManualEvent(h) ==
  /\ ReactorIdle
  /\ handles[h].pc = "idle"
  /\ events[h].work_live /\ events[h].work_active
  /\ handles' = [handles EXCEPT ![h] = HandleEvent(@, {"EV_WRITE"})]
  /\ events' = [events EXCEPT ![h].work_active = FALSE]
  /\ UNCHANGED <<executor, others>>

\* ConnectionHandle::Callback, called by the executor (on any thread) when the
\* command it was left with completes: event_active(workpool_event_, EV_WRITE, 0).
\* NOISEPAGE_ASSERT aborts a debug build when the handle is not in PROCESS.
Builds == {"debug", "release"}

\* The body of Callback on the handle c with the events e: the assertion,
\* then event_active.
CallbackBody(c, e, build, ub) ==
  IF build = "debug" /\ c.current_state_ # "PROCESS"
  THEN [c |-> [c EXCEPT !.pc = "fatal"], e |-> e]
  ELSE IF c.workpool_event_ = "event" /\ e.work_live
  THEN [c |-> c, e |-> [e EXCEPT !.work_active = TRUE]]
  ELSE [c |-> [c EXCEPT !.pc = IF ub = "crash" THEN "fatal" ELSE @], e |-> e]

Callback(h) ==
  /\ NoCrash
  /\ executor[h]
  /\ executor' = [executor EXCEPT ![h] = FALSE]
  /\ \E build \in Builds, ub \in UBOutcomes :
       LET r == CallbackBody(handles[h], events[h], build, ub) IN
       /\ handles' = [handles EXCEPT ![h] = r.c]
       /\ events' = [events EXCEPT ![h] = r.e]
  /\ UNCHANGED others

\* The factory reuses the handle of a socket descriptor when the descriptor is
\* handed out again, which the operating system does once it was closed.
CanReuse(c) == c.pc = "idle" /\ c.io_closed

\* ResetForReuse(connection_id, task, interpreter).  io_wrapper_->Restart()
\* opens the transport again and context_.Reset() clears the feature records;
\* flush_read_features_ is not assigned.
ResetForReuse(c, connection_id) ==
  [c EXCEPT !.io_closed       = FALSE,
            !.current_state_  = "READ",
            !.network_event_  = "nullptr",
            !.workpool_event_ = "nullptr",
            !.read_queries    = 0,
            !.write_queries   = 0,
            !.connection_id_  = connection_id,
            !.pc              = "new",
            !.next            = "NONE",
            !.act             = "none",
            !.caught          = FALSE,
            !.faulted         = "none",
            !.emit            = "none",
            !.unreg_network   = 0,
            !.unreg_workpool  = 0,
            !.reused          = TRUE,
            !.initial         = "none",
            !.wrote           = FALSE,
            !.closing         = FALSE,
            !.teardowns       = 0,
            !.pipeline        = "none",
            !.async           = "none"]

Reuse(h) ==
  /\ ReactorIdle
  /\ CanReuse(handles[h])
  /\ \E id \in ConnIds : handles' = [handles EXCEPT ![h] = ResetForReuse(@, id)]
  /\ UNCHANGED <<events, executor, others>>

(***************************************************************************)
(* The disk log consumer task (disk_log_consumer_task.cpp)                 *)
(***************************************************************************)
\* The serialized log entries the serializer hands over, numbered in the
\* order it enqueues them.
MaxEntries == 3

Entries == 1 .. MaxEntries

\* logs.first of entry i: a buffer, or nullptr (a read-only transaction
\* serializes no buffer but has callbacks).
HasBuffer(i) == i % 2 = 1

\* What FlushBuffer returns for the buffer of entry i: the bytes written.
BufferBytes(i) == i

\* logs.second of entry i: its commit callbacks (two, one, none, two, ...),
\* each a pair of the entry and its position.
CommitCallbacks(i) == [j \in 1 .. (2 - ((i - 1) % 3)) |-> <<i, j>>]

\* persist_threshold_
PersistThreshold == 2

\* const std::chrono::microseconds max_sleep = std::chrono::microseconds(10000)
max_sleep == 10000

\* The values persist_interval_ is configured with, in microseconds.
PersistIntervals == {3000, 20000}

\* The task as constructed.  pc is the position of the task thread:
\* "not_started", "wait" (at wait_for), "write" (in WriteBuffersToLogFile of
\* the loop), "persist" (before the test of the persist conditions), "test"
\* (at while (run_task_)), "final_write", "final_persist", "exited".
\* curr_sleep, next_sleep and signaled are the locals of the loop.  The
\* remaining fields record what happened: produced the entries enqueued so
\* far, log_file the buffers flushed in order, persisted the length of the
\* log file that Persist has made durable, invoked the callbacks called in
\* order, each with whether the buffer of its entry was durable at the call,
\* terminate the position of the thread calling Terminate, first_iteration
\* that the loop body runs for the first time, at_exit the entries that had
\* been enqueued when the loop was left.
NewTask(persist_interval) ==
  [pc                    |-> "not_started",
   run_task_             |-> FALSE,
   force_flush_          |-> FALSE,
   filled_buffer_queue_  |-> <<>>,
   empty_buffer_queue_   |-> <<>>,
   commit_callbacks_     |-> <<>>,
   current_data_written_ |-> 0,
   persist_interval_     |-> persist_interval,
   curr_sleep            |-> persist_interval,
   next_sleep            |-> persist_interval,
   signaled              |-> FALSE,
   produced              |-> 0,
   log_file              |-> <<>>,
   persisted             |-> 0,
   invoked               |-> <<>>,
   terminate             |-> "none",
   first_iteration       |-> TRUE,
   at_exit               |-> 0]

\* One iteration of the loop of WriteBuffersToLogFile that does not hand the
\* flushed buffer back.
WriteBuffer_KeepBuffer(t) ==
  LET i == Head(t.filled_buffer_queue_) IN
  [t EXCEPT !.filled_buffer_queue_  = Tail(@),
            !.current_data_written_ = IF HasBuffer(i) THEN @ + BufferBytes(i) ELSE @,
            !.log_file              = IF HasBuffer(i) THEN Append(@, i) ELSE @,
            !.commit_callbacks_     = @ \o CommitCallbacks(i)]

\* One iteration of the loop of WriteBuffersToLogFile: Dequeue, FlushBuffer
\* when there is a buffer, the callbacks appended to commit_callbacks_, the
\* buffer enqueued to the empty buffer queue.
WriteBuffer(t) ==
  LET i == Head(t.filled_buffer_queue_) IN
  [t EXCEPT !.filled_buffer_queue_  = Tail(@),
            !.current_data_written_ = IF HasBuffer(i) THEN @ + BufferBytes(i) ELSE @,
            !.log_file              = IF HasBuffer(i) THEN Append(@, i) ELSE @,
            !.commit_callbacks_     = @ \o CommitCallbacks(i),
            !.empty_buffer_queue_   = IF HasBuffer(i) THEN Append(@, i) ELSE @]

\* The buffer of the callback's entry, if any, is in the first n buffers of
\* the log file.
Durable(cb, file, n) == HasBuffer(cb[1]) => \E p \in 1 .. n : file[p] = cb[1]

\* The callbacks of `callbacks` called in order, with the first n buffers of
\* the log file durable.
Invoke(t, callbacks, n) ==
  t.invoked \o [k \in 1 .. Len(callbacks) |->
                  [cb |-> callbacks[k], durable |-> Durable(callbacks[k], t.log_file, n)]]

\* PersistLogFile calling the callbacks before it persists.
PersistLogFile_CallbacksFirst(t) ==
  [t EXCEPT !.invoked           = Invoke(t, t.commit_callbacks_, t.persisted),
            !.persisted         = IF t.current_data_written_ > 0 THEN Len(t.log_file) ELSE @,
            !.commit_callbacks_ = <<>>]

\* PersistLogFile: Persist when anything was written since the last persist,
\* then every callback of commit_callbacks_ is called and the list is cleared.
PersistLogFile(t) ==
  LET n == IF t.current_data_written_ > 0 THEN Len(t.log_file) ELSE t.persisted IN
  [t EXCEPT !.persisted         = n,
            !.invoked           = Invoke(t, t.commit_callbacks_, n),
            !.commit_callbacks_ = <<>>]

\* The predicate of wait_for: what it returns when the wait ends.
Signaled(t) == t.force_flush_ \/ t.filled_buffer_queue_ # <<>> \/ ~t.run_task_

\* The next interval without the upper limit.
NextSleep_NoLimit(t, signaled) ==
  IF signaled THEN t.persist_interval_ ELSE t.curr_sleep * 2

\* next_sleep = signaled ? persist_interval_ : curr_sleep * 2;
\* next_sleep = std::min(next_sleep, max_sleep)
NextSleep(t, signaled) ==
  Min(IF signaled THEN t.persist_interval_ ELSE t.curr_sleep * 2, max_sleep)

\* The condition of the persist in the loop; timeout: more than curr_sleep
\* has passed since the last persist.
ShouldPersist(t, timeout) ==
  \/ timeout
  \/ t.current_data_written_ > PersistThreshold
  \/ t.force_flush_
  \/ ~t.run_task_

\* A step of one of the threads of the disk log consumer: the task becomes
\* t and the other components stay as they are.
LogStep(t) ==
  /\ task' = t
  /\ UNCHANGED <<network, metric>>

\* RunTask and the start of DiskLogConsumerTaskLoop, up to the first wait.
RunTask ==
  /\ task.pc = "not_started"
  /\ LogStep([task EXCEPT !.run_task_             = TRUE,
                          !.current_data_written_ = 0,
                          !.curr_sleep            = task.persist_interval_,
                          !.next_sleep            = task.persist_interval_,
                          !.pc                    = "wait"])

\* wait_for returns: true when its predicate holds, false when the interval
\* has passed and it does not.
WaitFor ==
  /\ task.pc = "wait"
  /\ LogStep([task EXCEPT !.signaled   = Signaled(task),
                          !.next_sleep = NextSleep(task, Signaled(task)),
                          !.pc         = "write"])

WaitSignaled == Signaled(task) /\ WaitFor

WaitTimedOut == ~Signaled(task) /\ WaitFor

\* WriteBuffersToLogFile, in the loop and after it: one entry.
WriteBuffersToLogFile ==
  /\ task.pc \in {"write", "final_write"}
  /\ task.filled_buffer_queue_ # <<>>
  /\ LogStep(WriteBuffer(task))

\* WriteBuffersToLogFile finds the queue empty and returns.
WriteBuffersDone ==
  /\ task.pc \in {"write", "final_write"}
  /\ task.filled_buffer_queue_ = <<>>
  /\ LogStep([task EXCEPT !.pc = IF @ = "write" THEN "persist" ELSE "final_persist"])

\* The persist of the loop.
PersistInLoop ==
  /\ task.pc = "persist"
  /\ \E timeout \in BOOLEAN :
       /\ ShouldPersist(task, timeout)
       /\ LogStep([PersistLogFile(task) EXCEPT !.current_data_written_ = 0,
                                               !.force_flush_          = FALSE,
                                               !.pc                    = "test"])

\* None of the conditions holds.
SkipPersist ==
  /\ task.pc = "persist"
  /\ ~ShouldPersist(task, FALSE)
  /\ LogStep([task EXCEPT !.pc = "test"])

\* while (run_task_) holds: the next iteration starts with curr_sleep = next_sleep.
LoopAgain ==
  /\ task.pc = "test"
  /\ task.run_task_
  /\ LogStep([task EXCEPT !.curr_sleep      = task.next_sleep,
                          !.first_iteration = FALSE,
                          !.pc              = "wait"])

\* while (run_task_) fails: the loop is left.
LoopExit ==
  /\ task.pc = "test"
  /\ ~task.run_task_
  /\ LogStep([task EXCEPT !.pc = "final_write", !.at_exit = task.produced])

\* The PersistLogFile after the loop.
FinalPersist ==
  /\ task.pc = "final_persist"
  /\ LogStep([PersistLogFile(task) EXCEPT !.pc = "exited"])

\* The serializer enqueues the next entry.
Enqueue ==
  /\ task.produced < MaxEntries
  /\ LogStep([task EXCEPT !.filled_buffer_queue_ = Append(@, task.produced + 1),
                          !.produced             = @ + 1])

\* The log manager asks for a flush.
ForceFlush ==
  /\ task.pc \notin {"not_started", "exited"}
  /\ ~task.force_flush_
  /\ LogStep([task EXCEPT !.force_flush_ = TRUE])

\* Terminate is called: while (!run_task_) yield.
TerminateCalled ==
  /\ task.terminate = "none"
  /\ LogStep([task EXCEPT !.terminate = "waiting"])

\* Terminate leaves its loop: run_task_ = false and notify_one.
TerminateSignals ==
  /\ task.terminate = "waiting"
  /\ task.run_task_
  /\ LogStep([task EXCEPT !.run_task_ = FALSE, !.terminate = "done"])

\* The task thread.
TaskStep ==
  \/ RunTask
  \/ WaitSignaled
  \/ WaitTimedOut
  \/ WriteBuffersToLogFile
  \/ WriteBuffersDone
  \/ PersistInLoop
  \/ SkipPersist
  \/ LoopAgain
  \/ LoopExit
  \/ FinalPersist

(***************************************************************************)
(* The raw data of the network metric (network_metric.h)                   *)
(***************************************************************************)
\* constexpr auto size = (1 << 15) / sizeof(NetworkData), scaled down.
NetworkCapacity == 3

\* The records a queue holds at most before Aggregate is called (the queue
\* itself is not bounded: RecordNetworkData does not look at its size).
MaxRecords == NetworkCapacity + 1

Records == {"r1", "r2"}

BoundedSeq(S, n) == UNION {[1 .. k -> S] : k \in 0 .. n}

\* The loop of Aggregate that takes the records of the other object from the back.
RECURSIVE AggregateLoop_FromBack(_, _)
AggregateLoop_FromBack(this, other) ==
  IF other # <<>> /\ Len(this) < NetworkCapacity
  THEN AggregateLoop_FromBack(Append(this, other[Len(other)]), SubSeq(other, 1, Len(other) - 1))
  ELSE [this |-> this, other |-> other]

\* while (!other->network_data_.empty() && network_data_.size() < size):
\* emplace_back(other->network_data_.front()); other->network_data_.pop_front()
RECURSIVE AggregateLoop(_, _)
AggregateLoop(this, other) ==
  IF other # <<>> /\ Len(this) < NetworkCapacity
  THEN AggregateLoop(Append(this, Head(other)), Tail(other))
  ELSE [this |-> this, other |-> other]

\* Aggregate(other) on this object: the two queues after the call.
Aggregate(this, other) ==
  IF other # <<>>
  THEN [this |-> AggregateLoop(this, other).this, other |-> <<>>]
  ELSE [this |-> this, other |-> other]

\* Two objects with empty queues; op is the member function called last and
\* pre_this, pre_other the queues before that call.
NoMetric ==
  [network_data_ |-> <<>>, other |-> <<>>, op |-> "none", pre_this |-> <<>>, pre_other |-> <<>>]

\* this->Aggregate(other)
MetricAggregate ==
  /\ LET r == Aggregate(metric.network_data_, metric.other) IN
       metric' = [network_data_ |-> r.this, other |-> r.other, op |-> "Aggregate",
                  pre_this |-> metric.network_data_, pre_other |-> metric.other]
  /\ UNCHANGED <<network, task>>

\* RecordNetworkData on the other object: network_data_.emplace_back(...)
MetricRecord ==
  /\ Len(metric.other) < MaxRecords
  /\ \E r \in Records :
       metric' = [metric EXCEPT !.other = Append(@, r), !.op = "RecordNetworkData",
                                !.pre_this = metric.network_data_, !.pre_other = metric.other]
  /\ UNCHANGED <<network, task>>

(***************************************************************************)
(* Specifications                                                          *)
(***************************************************************************)
NoExecutor == [h \in Handles |-> FALSE]

\* One connection on the reactor.
Init ==
  /\ handles = [h \in Handles |->
       IF h = "c1" THEN NewHandle("fd_a") ELSE [NewHandle("fd_b") EXCEPT !.pc = "absent"]]
  /\ events = [h \in Handles |-> NoEvents]
  /\ executor = NoExecutor
  /\ task = NewTask(max_sleep)
  /\ metric = NoMetric

\* Two connections on the same reactor.
InitTwo ==
  /\ handles = [h \in Handles |-> NewHandle(IF h = "c1" THEN "fd_a" ELSE "fd_b")]
  /\ events = [h \in Handles |-> NoEvents]
  /\ executor = NoExecutor
  /\ task = NewTask(max_sleep)
  /\ metric = NoMetric

\* What the reactor thread and the executor do with one connection.
Serve(h, E) ==
  \/ RegisterToReceiveEvents(h)
  \/ ReactorNetworkEvent(h)
  \/ ReactorManualEvent(h)
  \/ Callback(h)
  \/ AcceptWaitForRead(h)
  \/ AcceptWaitForWrite(h)
  \/ AcceptWaitForReadWithTimeout(h)
  \/ AcceptWaitForTerrier(h)
  \/ AcceptTryRead(h, E)
  \/ AcceptTryWrite(h, E)
  \/ AcceptProcess(h, E)
  \/ AcceptGetResult(h)
  \/ AcceptTryCloseConnection(h, E)

Next == \E h \in Handles : Serve(h, Documented) \/ Reuse(h)

Spec == Init /\ [][Next]_vars

\* Two connections, nothing sampled, no handle reused.
NextTwo == \E h \in Handles : Serve(h, Unsampled)

SpecTwo == InitTwo /\ [][NextTwo]_vars

\* The same with collaborators that return any transition.
NextAny == \E h \in Handles : Serve(h, Misbehaving) \/ AcceptUndefined(h) \/ Reuse(h)

SpecAny == Init /\ [][NextAny]_vars

\* HandleEvent called for a handle whose events were unregistered (a stray
\* wake-up: the handle's callbacks still hold its address).
StrayWakeup(h) ==
  /\ ReactorIdle
  /\ handles[h].pc = "idle"
  /\ handles[h].network_event_ = "event" /\ ~events[h].net_live
  /\ handles[h].unreg_network < MaxUnregister
  /\ handles' = [handles EXCEPT ![h] = HandleEvent(@, {"EV_WRITE"})]
  /\ UNCHANGED <<events, executor, others>>

NextStray == \E h \in Handles : Serve(h, Documented) \/ Reuse(h) \/ StrayWakeup(h)

SpecStray == Init /\ [][NextStray]_vars

\* Accept called with any transition, NONE included, on a registered handle
\* whose transport is open (nothing is sampled).
DirectAccept(h) ==
  /\ ReactorIdle
  /\ handles[h].pc = "idle"
  /\ handles[h].network_event_ = "event" /\ ~handles[h].io_closed
  /\ \E action \in Transition : handles' = [handles EXCEPT ![h] = Accept(@, action)]
  /\ UNCHANGED <<events, executor, others>>

NextDirect ==
  \E h \in Handles :
    Serve(h, Unsampled) \/ AcceptUndefined(h) \/ Reuse(h) \/ DirectAccept(h)

SpecDirect == Init /\ [][NextDirect]_vars

\* No connection: the state of the network layer while another component is
\* followed.
NoNetwork ==
  /\ handles = [h \in Handles |-> [NewHandle("fd_a") EXCEPT !.pc = "absent"]]
  /\ events = [h \in Handles |-> NoEvents]
  /\ executor = NoExecutor

\* The disk log consumer task with its serializer, the log manager and the
\* thread that terminates it.
InitLog ==
  /\ NoNetwork
  /\ \E persist_interval \in PersistIntervals : task = NewTask(persist_interval)
  /\ metric = NoMetric

NextLog == TaskStep \/ Enqueue \/ ForceFlush \/ TerminateCalled \/ TerminateSignals

SpecLog == InitLog /\ [][NextLog]_vars

\* The task thread and the thread in Terminate keep running.
FairLog == SpecLog /\ WF_vars(TaskStep) /\ WF_vars(TerminateSignals)

\* Two metric objects with any records, one aggregated into the other.
InitMetric ==
  /\ NoNetwork
  /\ task = NewTask(max_sleep)
  /\ \E a \in BoundedSeq(Records, MaxRecords), b \in BoundedSeq(Records, MaxRecords) :
       metric = [NoMetric EXCEPT !.network_data_ = a, !.other = b]

NextMetric == MetricAggregate \/ MetricRecord

SpecMetric == InitMetric /\ [][NextMetric]_vars

\* The thread that is inside Accept keeps running.
AcceptStep(h) ==
  \/ AcceptWaitForRead(h)
  \/ AcceptWaitForWrite(h)
  \/ AcceptWaitForReadWithTimeout(h)
  \/ AcceptWaitForTerrier(h)
  \/ AcceptTryRead(h, Documented)
  \/ AcceptTryWrite(h, Documented)
  \/ AcceptProcess(h, Documented)
  \/ AcceptGetResult(h)
  \/ AcceptTryCloseConnection(h, Documented)

FairSpec == Spec /\ \A h \in Handles : WF_vars(AcceptStep(h))

\* The reactor keeps delivering the events that can fire, the executor
\* completes its commands, and a close that is tried again and again
\* succeeds in the end.
Deliver(h) == ReactorNetworkEvent(h) \/ ReactorManualEvent(h) \/ Callback(h)

CloseSucceeds(h) == AcceptTryCloseConnection(h, Documented) /\ handles'[h].io_closed

FairClose ==
  /\ Spec
  /\ \A h \in Handles :
       WF_vars(AcceptStep(h)) /\ WF_vars(Deliver(h)) /\ SF_vars(CloseSucceeds(h))

(***************************************************************************)
(* Properties                                                              *)
(***************************************************************************)
\* The owning thread took a step in handle h (the executor's Callback
\* touches only the event base).
Moved(h) == handles'[h] # handles[h]

\* Accept ran one iteration on h.
Iterated(h) == handles[h].pc = "accept" /\ Moved(h)

\* The table of the specification, section 4.1, with the action functions
\* under the names of the code (WaitForReadTimeout is WaitForReadWithTimeout,
\* WaitForResult is WaitForTerrier, TryClose is TryCloseConnection).  A pair
\* that is not in the domain is marked undefined in the table.
DocumentedTable ==
     <<"READ", "NEED_READ">>            :> TR("READ", "WaitForRead")
  @@ <<"READ", "NEED_READ_TIMEOUT">>    :> TR("READ", "WaitForReadWithTimeout")
  @@ <<"READ", "NEED_WRITE">>           :> TR("READ", "WaitForWrite")
  @@ <<"READ", "PROCEED">>              :> TR("PROCESS", "Process")
  @@ <<"READ", "TERMINATE">>            :> TR("CLOSING", "TryCloseConnection")
  @@ <<"READ", "WAKEUP">>               :> TR("READ", "TryRead")
  @@ <<"PROCESS", "NEED_READ">>         :> TR("READ", "TryRead")
  @@ <<"PROCESS", "NEED_READ_TIMEOUT">> :> TR("READ", "WaitForReadWithTimeout")
  @@ <<"PROCESS", "NEED_RESULT">>       :> TR("PROCESS", "WaitForTerrier")
  @@ <<"PROCESS", "PROCEED">>           :> TR("WRITE", "TryWrite")
  @@ <<"PROCESS", "TERMINATE">>         :> TR("CLOSING", "TryCloseConnection")
  @@ <<"PROCESS", "WAKEUP">>            :> TR("PROCESS", "GetResult")
  @@ <<"WRITE", "NEED_READ">>           :> TR("WRITE", "WaitForRead")
  @@ <<"WRITE", "NEED_WRITE">>          :> TR("WRITE", "WaitForWrite")
  @@ <<"WRITE", "PROCEED">>             :> TR("PROCESS", "Process")
  @@ <<"WRITE", "TERMINATE">>           :> TR("CLOSING", "TryCloseConnection")
  @@ <<"WRITE", "WAKEUP">>              :> TR("WRITE", "TryWrite")
  @@ <<"CLOSING", "NEED_READ">>         :> TR("WRITE", "WaitForRead")
  @@ <<"CLOSING", "NEED_WRITE">>        :> TR("WRITE", "WaitForWrite")
  @@ <<"CLOSING", "TERMINATE">>         :> TR("CLOSING", "TryCloseConnection")
  @@ <<"CLOSING", "WAKEUP">>            :> TR("CLOSING", "TryCloseConnection")

\* The pair Accept looks up in its next iteration on h.
Pair(h) == <<handles[h].current_state_, handles[h].next>>

\* C1: Delta gives the documented pair for every pair of the documented
\* table and raises the "Undefined transition" error for every other pair of
\* a state and a transition; and so does every iteration of Accept: one that
\* looks up a documented pair enters the documented next state and calls the
\* documented action, one that looks up an undefined pair enters no state
\* and calls no action.
C1_DeltaMatchesTable ==
  /\ [](\A s \in ConnState, t \in Transition \ {"NONE"} :
          Delta(s, t) = IF <<s, t>> \in DOMAIN DocumentedTable
                        THEN DocumentedTable[<<s, t>>] ELSE Undefined)
  /\ [][\A h \in Handles :
          Iterated(h) =>
            IF Pair(h) \in DOMAIN DocumentedTable
            THEN /\ handles'[h].current_state_ = DocumentedTable[Pair(h)].state
                 /\ handles'[h].act = DocumentedTable[Pair(h)].action
                 /\ handles'[h].pc # "fatal"
            ELSE handles'[h] = [handles[h] EXCEPT !.pc = "fatal"]]_vars

\* TryRead was called for the documented pair (READ, WAKEUP), and the pair
\* (READ, NEED_RESULT), undefined in the table, raised the error.
C1_Witness ==
  \E h \in Handles :
    /\ handles[h].pc = "fatal"
    /\ handles[h].act = "TryRead"
    /\ Pair(h) = <<"READ", "NEED_RESULT">>

\* C6: an iteration of Accept that looks up an undefined pair ends the
\* dispatch of the connection with the error: no state is entered, no action
\* is called, the transition is not replaced by TERMINATE and is not marked
\* as a caught fault, no event is touched, and nothing runs afterwards.
C6_UndefinedIsFatal ==
  /\ [][\A h \in Handles :
          (Iterated(h) /\ Lookup(h) = Undefined) =>
            /\ handles'[h] = [handles[h] EXCEPT !.pc = "fatal"]
            /\ handles'[h].next # "TERMINATE" /\ ~handles'[h].caught
            /\ UNCHANGED events]_vars
  /\ [][NoCrash]_vars

\* The interpreter's Process returned NEED_WRITE, which is undefined in
\* PROCESS, and the error ended the dispatch.
C6_Witness ==
  \E h \in Handles :
    /\ handles[h].pc = "fatal"
    /\ handles[h].act = "Process"
    /\ Pair(h) = <<"PROCESS", "NEED_WRITE">>

\* C2: every call of Accept returns: a handle is not inside Accept forever,
\* whatever the IoWrapper and the interpreter return or raise.
C2_AcceptReturns == \A h \in Handles : []<>(handles[h].pc # "accept")

\* C3: a NetworkProcessException raised by an action is caught in Accept and
\* replaced by TERMINATE: Accept is still running, nothing has left it, and
\* its next iteration, whatever the state, enters CLOSING and calls
\* TryCloseConnection.
C3_FaultBecomesTerminate ==
  /\ [](\A h \in Handles :
          handles[h].caught =>
            /\ handles[h].pc = "accept"
            /\ handles[h].next = "TERMINATE"
            /\ Lookup(h) = TR("CLOSING", "TryCloseConnection"))
  /\ [][\A h \in Handles :
          (handles[h].caught /\ Moved(h)) =>
            /\ handles'[h].current_state_ = "CLOSING"
            /\ handles'[h].act = "TryCloseConnection"
            /\ handles'[h].pc # "fatal"]_vars

\* The exception Process raised was caught, and the iteration after it
\* called TryCloseConnection in CLOSING.
C3_Witness ==
  \E h \in Handles :
    /\ handles[h].faulted = "Process"
    /\ ~handles[h].caught
    /\ handles[h].act = "TryCloseConnection"
    /\ handles[h].current_state_ = "CLOSING"

\* C5: with collaborators that return their documented transitions or raise
\* NetworkProcessException, no error leaves HandleEvent (no exception escapes
\* and no lookup is undefined), a connection whose handling has ended (its
\* transport is closed, or it is parked in CLOSING, or it was reset) has
\* neither event in the event base, and a parked connection whose handling
\* has not ended has both events and can still be woken.
C5_NoEscapeNoLeak ==
  \A h \in Handles :
    /\ handles[h].pc # "fatal"
    /\ InAccept(h) => Lookup(h) # Undefined
    /\ (\/ handles[h].io_closed
        \/ handles[h].pc = "new"
        \/ handles[h].pc = "idle" /\ handles[h].current_state_ = "CLOSING")
         => ~events[h].net_live /\ ~events[h].work_live
    /\ (handles[h].pc = "idle" /\ ~handles[h].io_closed)
         => /\ events[h].net_live /\ events[h].work_live
            /\ events[h].net_added \/ events[h].work_active \/ executor[h]

\* A fault of the transport (FillReadBuffer raised) ended the connection:
\* it is closed and parked with no event left.
C5_Witness ==
  \E h \in Handles :
    /\ handles[h].faulted = "other"
    /\ handles[h].pc = "idle"
    /\ handles[h].io_closed
    /\ events[h] = NoEvents

\* C4: once the exception Process raised on one connection was caught, that
\* connection is in CLOSING (and, once its transport is closed, has neither
\* event in the event base), and no step of one connection changes the
\* handle, the events or the executor's flag of another connection.
C4_FaultContained ==
  /\ [](\A h \in Handles :
          (handles[h].faulted = "Process" /\ ~handles[h].caught) =>
            /\ handles[h].current_state_ = "CLOSING"
            /\ handles[h].io_closed => events[h] = NoEvents)
  /\ [][\A h \in Handles : \A g \in Handles \ {h} :
          Moved(h) =>
            /\ handles'[g] = handles[g]
            /\ events'[g] = events[g]
            /\ executor'[g] = executor[g]]_vars

\* C7: when TryCloseConnection is called for a handle whose transport it has
\* closed and whose events it has unregistered, it calls UnregisterEvent for
\* neither event again, the process survives, and the handle is in CLOSING.
C7_SecondCloseIsNoOp ==
  [][\A h \in Handles :
       (/\ Iterated(h)
        /\ handles'[h].act = "TryCloseConnection"
        /\ handles[h].io_closed
        /\ events[h] = NoEvents) =>
         /\ handles'[h].unreg_network = handles[h].unreg_network
         /\ handles'[h].unreg_workpool = handles[h].unreg_workpool
         /\ handles'[h].pc # "fatal"
         /\ handles'[h].current_state_ = "CLOSING"]_vars

C10_ResetLikeNew ==
  \A h \in Handles :
    (handles[h].reused /\ handles[h].pc = "new") =>
      /\ [handles[h] EXCEPT !.reused = FALSE] = NewHandle(handles[h].connection_id_)
      /\ events[h] = NoEvents
      /\ ~executor[h]

\* C11: within one call of Accept, when TryRead returns PROCEED the machine
\* is in READ and calls Process in PROCESS next; when that Process returns
\* PROCEED it calls TryWrite in WRITE next; when that TryWrite has flushed and
\* returns PROCEED it calls Process again, in PROCESS and not in READ, and
\* Accept has not returned to the reactor anywhere in between.
C11_Pipelining ==
  /\ [](\A h \in Handles :
          /\ handles[h].pipeline = "read" =>
               /\ handles[h].pc = "accept" /\ handles[h].current_state_ = "READ"
               /\ Lookup(h) = TR("PROCESS", "Process")
          /\ handles[h].pipeline = "read_process" =>
               /\ handles[h].pc = "accept" /\ handles[h].current_state_ = "PROCESS"
               /\ Lookup(h) = TR("WRITE", "TryWrite")
          /\ handles[h].pipeline = "read_process_write" =>
               /\ handles[h].pc = "accept" /\ handles[h].current_state_ = "WRITE"
               /\ Lookup(h) = TR("PROCESS", "Process")
          /\ handles[h].pipeline = "pipelined" =>
               /\ handles[h].current_state_ = "PROCESS" /\ handles[h].act = "Process")
  /\ [][\A h \in Handles :
          (Moved(h) /\ handles[h].pipeline = "read_process_write") =>
            /\ handles'[h].pipeline = "pipelined"
            /\ handles'[h].pc \in {"accept", "idle"}]_vars

\* Process was called a second time in the same call of Accept, after
\* TryRead, Process and a flushing TryWrite all returned PROCEED.
C11_Witness == \E h \in Handles : handles[h].pipeline = "pipelined"

\* C12: when Process returns NEED_RESULT the machine stays in PROCESS, calls
\* WaitForTerrier, which deletes the network event, and Accept returns; the
\* handle is then woken by the manual event only, with WAKEUP; GetResult is
\* called in PROCESS, adds the network event again (without a timeout) and,
\* unless the interpreter raises, returns PROCEED; TryWrite is called next,
\* in WRITE.
C12_AsyncCommand ==
  /\ [](\A h \in Handles :
          /\ handles[h].async = "pending" =>
               /\ handles[h].pc = "accept" /\ handles[h].current_state_ = "PROCESS"
               /\ Lookup(h) = TR("PROCESS", "WaitForTerrier")
          /\ handles[h].async = "waiting" =>
               /\ handles[h].pc = "idle" /\ handles[h].current_state_ = "PROCESS"
               /\ handles[h].act = "WaitForTerrier"
               /\ events[h].net_live /\ ~events[h].net_added
               /\ events[h].work_live /\ (executor[h] \/ events[h].work_active)
          /\ handles[h].async = "woken" =>
               /\ handles[h].pc = "accept" /\ handles[h].next = "WAKEUP"
               /\ Lookup(h) = TR("PROCESS", "GetResult")
          /\ handles[h].async = "result" =>
               /\ handles[h].pc = "accept" /\ handles[h].act = "GetResult"
               /\ events[h].net_added /\ ~events[h].net_timeout
               /\ Lookup(h) = TR("WRITE", "TryWrite")
          /\ handles[h].async = "written" =>
               /\ handles[h].current_state_ = "WRITE" /\ handles[h].act = "TryWrite")
  /\ [][\A h \in Handles :
          /\ (Moved(h) /\ handles[h].async = "pending") => handles'[h].async = "waiting"
          /\ (Moved(h) /\ handles[h].async = "waiting") =>
               /\ events[h].work_active /\ ~events'[h].work_active
               /\ handles'[h].async = "woken"
          /\ (Moved(h) /\ handles[h].async = "woken") =>
               /\ handles'[h].act = "GetResult" /\ events'[h].net_added
               /\ handles'[h].caught \/ handles'[h].async = "result"
          /\ (Moved(h) /\ handles[h].async = "result") => handles'[h].async = "written"]_vars

\* TryWrite was called in WRITE after an asynchronous command completed:
\* NEED_RESULT, WaitForTerrier, the manual event, GetResult.
C12_Witness == \E h \in Handles : handles[h].async = "written"

\* The flags an event callback can be called with.
EventFlags == SUBSET {"EV_READ", "EV_WRITE", "EV_TIMEOUT"}

\* C13: HandleEvent starts Accept with TERMINATE for every event that carries
\* the timeout flag (and the reactor delivers TERMINATE only for a network
\* event armed with a timeout); TERMINATE is mapped to (CLOSING,
\* TryCloseConnection) in each of the four states, and the iteration that
\* looks it up enters CLOSING and calls TryCloseConnection; when that call
\* closes the transport, both events have left the event base, each
\* unregistered by this call, and Accept returns with the handle in CLOSING.
C13_TimeoutTerminates ==
  /\ [](\A h \in Handles : \A flags \in EventFlags :
          "EV_TIMEOUT" \in flags =>
            /\ HandleEvent(handles[h], flags).next = "TERMINATE"
            /\ HandleEvent(handles[h], flags).pc = "accept")
  /\ [](\A s \in ConnState : Delta(s, "TERMINATE") = TR("CLOSING", "TryCloseConnection"))
  /\ [][\A h \in Handles :
          /\ (handles[h].pc = "idle" /\ handles'[h].pc = "accept"
                 /\ handles'[h].next = "TERMINATE") =>
               events[h].net_added /\ events[h].net_timeout
          /\ (Iterated(h) /\ handles[h].next = "TERMINATE") =>
               /\ handles'[h].current_state_ = "CLOSING"
               /\ handles'[h].act = "TryCloseConnection"
               /\ handles'[h].io_closed <=> handles'[h].next = "NONE"
               /\ handles'[h].io_closed =>
                    /\ events[h].net_live /\ events[h].work_live
                    /\ events'[h] = NoEvents
                    /\ handles'[h].unreg_network = handles[h].unreg_network + 1
                    /\ handles'[h].unreg_workpool = handles[h].unreg_workpool + 1
                    /\ handles'[h].pc = "idle"]_vars

\* A connection that waited in READ was ended by the timeout: Accept was
\* called with TERMINATE, nothing raised, the transport is closed and the
\* handle is parked in CLOSING with no event left.
C13_Witness ==
  \E h \in Handles :
    /\ handles[h].initial = "TERMINATE"
    /\ handles[h].faulted = "none"
    /\ handles[h].pc = "idle"
    /\ handles[h].current_state_ = "CLOSING"
    /\ handles[h].io_closed
    /\ events[h] = NoEvents

\* C14: a handle whose transport TryCloseConnection has closed is in CLOSING
\* until it is reset, and a handle that has entered CLOSING does not leave
\* it for READ, PROCESS or WRITE in any step but the reset.
C14_ClosingIsAbsorbing ==
  /\ [](\A h \in Handles : handles[h].io_closed => handles[h].current_state_ = "CLOSING")
  /\ [][\A h \in Handles :
          (handles[h].current_state_ = "CLOSING" /\ handles'[h].pc # "new") =>
            handles'[h].current_state_ = "CLOSING"]_vars

\* C15: once an exception of a connection was caught in Accept, no iteration
\* on that connection calls TryWrite with FlushAllWrites any more.
C15_NoWriteAfterFault ==
  [][\A h \in Handles :
       (Iterated(h) /\ handles[h].faulted # "none") =>
         ~(handles'[h].act = "TryWrite" /\ handles'[h].wrote)]_vars

\* An event of h can fire: the network event is added, the manual event is
\* activated.
NetworkSlotActive(h) == events[h].net_live /\ events[h].net_added

ManualSlotActive(h) == events[h].work_live /\ events[h].work_active

\* C16 as stated: in every reachable state at most one of the two events of
\* a handle can fire.
C16_OneSlotActive ==
  \A h \in Handles : ~(NetworkSlotActive(h) /\ ManualSlotActive(h))

\* C16, amended: whenever a registered handle whose transport is open is
\* parked in the reactor, at most one of its two events can fire, the one
\* the last action waits for: after RegisterToReceiveEvents, WaitForRead,
\* WaitForWrite and WaitForReadWithTimeout the network event, with the
\* readiness and the timeout of that action, and no command is with the
\* executor; after WaitForTerrier the manual event, once the executor's
\* Callback has activated it.
C16_OneSlotWhenParked ==
  \A h \in Handles :
    (handles[h].pc = "idle" /\ ~handles[h].io_closed) =>
      /\ ~(NetworkSlotActive(h) /\ ManualSlotActive(h))
      /\ handles[h].act \in {"none", "WaitForRead", "WaitForWrite",
                              "WaitForReadWithTimeout", "WaitForTerrier"}
      /\ handles[h].act # "WaitForTerrier" =>
           /\ NetworkSlotActive(h) /\ ~ManualSlotActive(h) /\ ~executor[h]
           /\ events[h].net_flags = (IF handles[h].act = "WaitForWrite" THEN "WRITE" ELSE "READ")
           /\ events[h].net_timeout <=> handles[h].act = "WaitForReadWithTimeout"
      /\ handles[h].act = "WaitForTerrier" =>
           /\ ~NetworkSlotActive(h)
           /\ ManualSlotActive(h) \/ executor[h]

\* A handle parked by WaitForTerrier whose manual event was activated: the
\* manual event can fire, the network event cannot.
C16_Witness ==
  \E h \in Handles :
    /\ handles[h].pc = "idle"
    /\ handles[h].act = "WaitForTerrier"
    /\ ManualSlotActive(h)
    /\ ~NetworkSlotActive(h)

\* C17: whenever the executor can call Callback for a handle (also while the
\* owning thread is inside Accept), the call writes no field of the handle,
\* activates the manual event and does nothing else, and reads no
\* current_state_: it does the same whatever the value of that field.
C17_CallbackTouchesNothing ==
  \A h \in Handles :
    executor[h] =>
      \A build \in Builds, ub \in UBOutcomes, s \in ConnState :
        LET r == CallbackBody(handles[h], events[h], build, ub)
            q == CallbackBody([handles[h] EXCEPT !.current_state_ = s], events[h], build, ub)
        IN  /\ r.c = handles[h]
            /\ r.e = [events[h] EXCEPT !.work_active = TRUE]
            /\ q.e = r.e
            /\ q.c = [r.c EXCEPT !.current_state_ = s]

\* C18: a call of TryCloseConnection that does not close the transport
\* leaves both events as they were and unregisters nothing; and as long as
\* the transport of a connection for which TryCloseConnection was called is
\* not closed, an event delivered to it (WAKEUP) calls TryCloseConnection.
C18_CloseIsRetried ==
  [][\A h \in Handles :
       /\ (Iterated(h) /\ handles'[h].act = "TryCloseConnection" /\ ~handles'[h].io_closed) =>
            /\ events'[h] = events[h]
            /\ handles'[h].unreg_network = handles[h].unreg_network
            /\ handles'[h].unreg_workpool = handles[h].unreg_workpool
       /\ (Iterated(h) /\ handles[h].closing /\ ~handles[h].io_closed
              /\ handles[h].next = "WAKEUP") =>
            handles'[h].act = "TryCloseConnection"]_vars

\* C19: a connection one of whose actions raised an exception that Accept
\* caught eventually has its transport closed and neither event left in the
\* event base.
C19_FaultLeadsToClosure ==
  \A h \in Handles :
    (handles[h].faulted # "none") ~> (handles[h].io_closed /\ events[h] = NoEvents)

\* C20: Accept is inside its loop exactly while `next` is not NONE; an
\* iteration whose lookup is defined assigns the looked-up state to
\* current_state_ (it stays assigned when the action raises), calls the
\* looked-up action and assigns what it returned to `next` (TERMINATE when
\* it raised), and Accept returns exactly when that is NONE; a call of
\* Accept with NONE looks nothing up, calls no action and changes neither
\* the state of the handle nor its events.
C20_AcceptLoop ==
  /\ [](\A h \in Handles :
          /\ handles[h].pc = "accept" => handles[h].next # "NONE"
          /\ handles[h].pc = "idle" => handles[h].next = "NONE")
  /\ [][\A h \in Handles :
          /\ (Iterated(h) /\ Lookup(h) # Undefined /\ handles'[h].pc # "fatal") =>
               /\ handles'[h].current_state_ = Lookup(h).state
               /\ handles'[h].act = Lookup(h).action
               /\ handles'[h].next \in Transition
               /\ handles'[h].caught => handles'[h].next = "TERMINATE"
               /\ handles'[h].pc = (IF handles'[h].next = "NONE" THEN "idle" ELSE "accept")
          /\ (handles[h].pc = "idle" /\ handles[h].initial # "NONE"
                 /\ handles'[h].initial = "NONE") =>
               /\ handles'[h].pc = "idle"
               /\ handles'[h].current_state_ = handles[h].current_state_
               /\ handles'[h].act = handles[h].act
               /\ [handles'[h] EXCEPT !.initial  = handles[h].initial,
                                      !.pipeline = handles[h].pipeline,
                                      !.async    = handles[h].async] = handles[h]
               /\ UNCHANGED <<events, executor>>]_vars

\* Accept was called with NONE on a handle that Process had left in PROCESS,
\* and returned at once; and an action that raised left the state it was
\* called in assigned.
C20_Witness ==
  \E h \in Handles :
    /\ handles[h].initial = "NONE"
    /\ handles[h].pc = "idle"
    /\ handles[h].current_state_ = "PROCESS"
    /\ handles[h].act = "WaitForTerrier"

\* C21: for every set of event flags HandleEvent starts Accept with
\* TERMINATE when EV_TIMEOUT is among them and with WAKEUP when it is not;
\* so every call of Accept by the reactor starts with one of the two, the
\* manual event always gives WAKEUP, and TERMINATE is given only for a
\* network event that can time out.
C21_HandleEventMapsFlags ==
  /\ [](\A h \in Handles : \A flags \in EventFlags :
          LET c == HandleEvent(handles[h], flags) IN
          /\ c.next = (IF "EV_TIMEOUT" \in flags THEN "TERMINATE" ELSE "WAKEUP")
          /\ c.initial = c.next
          /\ c.pc = "accept"
          /\ c.current_state_ = handles[h].current_state_)
  /\ [][\A h \in Handles :
          (handles[h].pc = "idle" /\ handles'[h].pc = "accept") =>
            /\ handles'[h].next \in {"TERMINATE", "WAKEUP"}
            /\ handles'[h].initial = handles'[h].next
            /\ (events[h].work_active /\ ~events'[h].work_active) => handles'[h].next = "WAKEUP"
            /\ handles'[h].next = "TERMINATE" => events[h].net_timeout
            /\ ~events[h].net_timeout => handles'[h].next = "WAKEUP"]_vars

\* The reactor delivered the timeout of a handle parked by
\* WaitForReadWithTimeout: Accept starts with TERMINATE.
C21_Witness ==
  \E h \in Handles :
    /\ handles[h].pc = "accept"
    /\ handles[h].act = "WaitForReadWithTimeout"
    /\ handles[h].initial = "TERMINATE"
    /\ handles[h].next = "TERMINATE"

\* The three actions that wait for the socket.
WaitActions == {"WaitForRead", "WaitForWrite", "WaitForReadWithTimeout"}

\* C22: an iteration that calls WaitForRead, WaitForWrite or
\* WaitForReadWithTimeout returns NONE (Accept returns), changes nothing of
\* the transport, the feature records and the executor, and leaves the
\* network event added with read, write and read readiness respectively,
\* with a timeout exactly for WaitForReadWithTimeout; and the reactor
\* delivers a timeout only to a handle parked by WaitForReadWithTimeout.
C22_WaitActionsRearm ==
  [][\A h \in Handles :
       /\ (Iterated(h) /\ handles'[h].act \in WaitActions /\ Lookup(h) # Undefined) =>
            /\ handles'[h].next = "NONE" /\ handles'[h].pc = "idle"
            /\ handles'[h] = [Entered(h) EXCEPT !.act = handles'[h].act, !.next = "NONE",
                                                !.pc = "idle", !.caught = FALSE, !.wrote = FALSE,
                                                !.pipeline = "none", !.async = "none"]
            /\ executor'[h] = executor[h]
            /\ events'[h] = [events[h] EXCEPT
                 !.net_flags   = IF handles'[h].act = "WaitForWrite" THEN "WRITE" ELSE "READ",
                 !.net_added   = TRUE,
                 !.net_timeout = (handles'[h].act = "WaitForReadWithTimeout")]
       /\ (handles[h].pc = "idle" /\ handles'[h].pc = "accept"
              /\ handles'[h].next = "TERMINATE") =>
            handles[h].act = "WaitForReadWithTimeout"]_vars

\* A handle parked by WaitForWrite: the network event waits for write
\* readiness with no timeout.
C22_Witness ==
  \E h \in Handles :
    /\ handles[h].pc = "idle"
    /\ handles[h].act = "WaitForWrite"
    /\ events[h].net_added /\ events[h].net_flags = "WRITE" /\ ~events[h].net_timeout

\* C23: a handle parked by WaitForTerrier has its network event out of the
\* set of events that can fire (no readiness and no timeout is delivered);
\* the only step of the owning thread on it is the delivery of the activated
\* manual event, with WAKEUP, and the first action called after
\* WaitForTerrier is GetResult.
C23_InvisibleUntilResult ==
  /\ [](\A h \in Handles :
          (handles[h].pc = "idle" /\ handles[h].act = "WaitForTerrier") =>
            /\ ~events[h].net_added /\ ~events[h].net_timeout
            /\ handles[h].current_state_ = "PROCESS")
  /\ [][\A h \in Handles :
          /\ (handles[h].pc = "idle" /\ handles[h].act = "WaitForTerrier" /\ Moved(h)) =>
               /\ events[h].work_active /\ ~events'[h].work_active
               /\ handles'[h].pc = "accept" /\ handles'[h].next = "WAKEUP"
               /\ handles'[h].act = "WaitForTerrier"
          /\ (handles[h].pc = "accept" /\ handles[h].act = "WaitForTerrier" /\ Moved(h)) =>
               handles'[h].act = "GetResult"]_vars

\* The manual event was delivered to a handle parked by WaitForTerrier:
\* Accept is about to call GetResult.
C23_Witness ==
  \E h \in Handles :
    /\ handles[h].pc = "accept"
    /\ handles[h].act = "WaitForTerrier"
    /\ handles[h].next = "WAKEUP"

\* C24: every GetResult that returns returns PROCEED (when the interpreter
\* raises, Accept makes it TERMINATE), and in either case the network event
\* was added before, without a timeout; so the iteration that looks up
\* WAKEUP in PROCESS calls GetResult and, unless the interpreter raised, the
\* next one calls TryWrite in WRITE, also when the command is still with
\* the executor.
C24_GetResultProceeds ==
  /\ [](\A h \in Handles : \A ok \in BOOLEAN, ub \in UBOutcomes :
          events[h].net_live =>
            LET r == GetResult(handles[h], events[h], executor[h], ok, ub) IN
            /\ r.t = (IF ok THEN "PROCEED" ELSE "FAULT")
            /\ r.e = [events[h] EXCEPT !.net_added = TRUE, !.net_timeout = FALSE]
            /\ r.x = executor[h])
  /\ [](Delta("PROCESS", "WAKEUP") = TR("PROCESS", "GetResult"))
  /\ [][\A h \in Handles :
          (Iterated(h) /\ Pair(h) = <<"PROCESS", "WAKEUP">>) =>
            /\ handles'[h].act = "GetResult"
            /\ handles'[h].current_state_ = "PROCESS"
            /\ events'[h].net_added /\ ~events'[h].net_timeout
            /\ handles'[h].next = (IF handles'[h].caught THEN "TERMINATE" ELSE "PROCEED")
            /\ ~handles'[h].caught => Delta(handles'[h].current_state_, handles'[h].next)
                                        = TR("WRITE", "TryWrite")]_vars

\* GetResult returned PROCEED for a WAKEUP in PROCESS while the command was
\* still with the executor.
C24_Witness ==
  \E h \in Handles :
    /\ handles[h].act = "GetResult"
    /\ handles[h].next = "PROCEED"
    /\ executor[h]

\* C25: for every reachable handle, TryWrite with ShouldFlush false returns
\* PROCEED, calls no FlushAllWrites and leaves the pending-flush flag and the
\* feature records as they are (nothing is emitted); with ShouldFlush true
\* it calls FlushAllWrites and returns (or raises) what that call returned
\* (or raised); neither touches the events or the executor.
C25_TryWriteFlushesWhenDue ==
  /\ [](\A h \in Handles : \A hook \in BOOLEAN, r \in Documented.flush :
          LET c == handles[h]
              n == TryWrite(c, events[h], executor[h], FALSE, hook, r)
              y == TryWrite(c, events[h], executor[h], TRUE, hook, r)
          IN  /\ n.t = "PROCEED"
              /\ n.c = [c EXCEPT !.emit = "none", !.wrote = FALSE]
              /\ y.t = r /\ y.c.wrote
              /\ n.e = events[h] /\ y.e = events[h]
              /\ n.x = executor[h] /\ y.x = executor[h])
  /\ [][\A h \in Handles :
          (Iterated(h) /\ handles'[h].act = "TryWrite" /\ ~handles'[h].wrote) =>
            /\ handles'[h].next = "PROCEED"
            /\ handles'[h].emit = "none"
            /\ handles'[h].flush_read_features_ = handles[h].flush_read_features_
            /\ handles'[h].read_queries = handles[h].read_queries
            /\ handles'[h].write_queries = handles[h].write_queries
            /\ events'[h] = events[h]]_vars

\* TryWrite found nothing due: it returned PROCEED and the read record of a
\* profiled read is still pending.
C25_Witness ==
  \E h \in Handles :
    /\ handles[h].act = "TryWrite"
    /\ ~handles[h].wrote
    /\ handles[h].next = "PROCEED"
    /\ handles[h].flush_read_features_
    /\ handles[h].read_queries = 1

\* The handle without what the sampling hook keeps in it.
Protocol(c) ==
  [c EXCEPT !.flush_read_features_ = FALSE, !.read_queries = 0, !.write_queries = 0,
            !.emit = "none"]

\* The handle c with one of the hook's fields set to another value.
Sampled(c) ==
  {[c EXCEPT !.flush_read_features_ = flag] : flag \in BOOLEAN}
    \cup {[c EXCEPT !.read_queries = q] : q \in 0..MaxQueries}
    \cup {[c EXCEPT !.write_queries = q] : q \in 0..MaxQueries}

\* C26: for every reachable handle, whatever the pending-flush flag and the
\* feature records hold, TryRead and TryWrite with the hook enabled and
\* with it disabled return the same transition (that of FillReadBuffer, of
\* FlushAllWrites, or PROCEED when nothing is due), leave the same handle
\* but for the hook's own fields, and leave the events and the executor
\* alone.
C26_HookDoesNotInterfere ==
  \A h \in Handles :
    handles[h].pc # "absent" =>
      \A k \in Sampled(handles[h]) :
        /\ \A r \in Documented.fill :
              LET a == TryRead(k, events[h], executor[h], TRUE, r)
                  b == TryRead(handles[h], events[h], executor[h], FALSE, r)
              IN  /\ a.t = r /\ b.t = r
                  /\ Protocol(a.c) = Protocol(b.c)
                  /\ a.e = events[h] /\ a.x = executor[h]
        /\ \A should_flush \in BOOLEAN, r \in Documented.flush :
              LET a == TryWrite(k, events[h], executor[h], should_flush, TRUE, r)
                  b == TryWrite(handles[h], events[h], executor[h], should_flush, FALSE, r)
              IN  /\ a.t = b.t /\ a.t = (IF should_flush THEN r ELSE "PROCEED")
                  /\ Protocol(a.c) = Protocol(b.c)
                  /\ a.e = events[h] /\ a.x = executor[h]

\* A profiled TryRead returned the NEED_READ_TIMEOUT of FillReadBuffer and
\* the handle was parked with the timeout armed.
C26_Witness ==
  \E h \in Handles :
    /\ handles[h].flush_read_features_
    /\ handles[h].act = "WaitForReadWithTimeout"
    /\ handles[h].pc = "idle"
    /\ events[h].net_timeout

\* The iteration called the block that flushes the read record: TryRead, or
\* a TryWrite that flushes.
FlushesRead(h) ==
  /\ Iterated(h)
  /\ \/ handles'[h].act = "TryRead"
     \/ handles'[h].act = "TryWrite" /\ handles'[h].wrote

\* C27: a read record is emitted only by a TryRead or a flushing TryWrite
\* that finds the pending-flush flag set and the record counting exactly one
\* query; such a call, emitting or not, clears the flag and resets the
\* record; the flag is set only by TryRead; so after an emission the flag is
\* clear until the next TryRead, and a record counting no or several
\* queries is not emitted.
C27_ReadRecordOnce ==
  /\ [](\A h \in Handles :
          LET f == FlushReadFeatures(handles[h]) IN
          /\ ~f.flush_read_features_
          /\ handles[h].flush_read_features_ => f.read_queries = 0
          /\ f.emit = "READ" <=>
               (handles[h].flush_read_features_ /\ handles[h].read_queries = 1))
  /\ [][\A h \in Handles :
          /\ (FlushesRead(h) /\ handles'[h].emit \in {"READ", "READ_WRITE"}) =>
               /\ handles[h].flush_read_features_
               /\ handles[h].read_queries = 1
          /\ (FlushesRead(h) /\ handles[h].flush_read_features_) =>
               /\ handles'[h].read_queries = 0
               /\ handles[h].read_queries = 1 <=> handles'[h].emit \in {"READ", "READ_WRITE"}
               /\ handles'[h].act = "TryWrite" => ~handles'[h].flush_read_features_
          /\ (Iterated(h) /\ ~FlushesRead(h)) =>
               /\ handles'[h].emit \in {"none", handles[h].emit}
               /\ handles'[h].flush_read_features_ = handles[h].flush_read_features_
          /\ (~handles[h].flush_read_features_ /\ handles'[h].flush_read_features_) =>
               handles'[h].act = "TryRead"]_vars

\* A flushing TryWrite emitted the read record of a profiled read that
\* counted one query, and cleared the flag.
C27_Witness ==
  \E h \in Handles :
    /\ handles[h].act = "TryWrite"
    /\ handles[h].emit \in {"READ", "READ_WRITE"}
    /\ ~handles[h].flush_read_features_
    /\ handles[h].read_queries = 0

\* C28: for every reachable registered handle, a TryCloseConnection whose
\* Teardown raises, or whose Close returns anything but PROCEED, leaves the
\* events and the transport as they were and returns Close's transition;
\* and in every step that unregisters an event of a handle, the step is a
\* TryCloseConnection call that did not raise, closed the transport,
\* unregistered both events and returned NONE.
C28_UnregisterAfterClose ==
  /\ [](\A h \in Handles : \A r \in Documented.close, ub \in UBOutcomes :
          LET c == handles[h]
              t == TryCloseConnection(c, events[h], executor[h], FALSE, r, ub)
              b == TryCloseConnection(c, events[h], executor[h], TRUE, r, ub)
          IN  /\ t.t = "FAULT" /\ t.e = events[h]
              /\ t.c = [c EXCEPT !.emit = "none", !.closing = TRUE,
                                  !.teardowns = Min(@ + 1, MaxTeardown)]
              /\ r # "PROCEED" =>
                   /\ b.t = r /\ b.e = events[h]
                   /\ b.c = [c EXCEPT !.emit = "none", !.closing = TRUE,
                                       !.teardowns = Min(@ + 1, MaxTeardown)]
              /\ (r = "PROCEED" /\ events[h].net_live /\ events[h].work_live) =>
                   /\ b.t = "NONE" /\ b.e = NoEvents /\ b.c.io_closed)
  /\ [][\A h \in Handles :
          (\/ handles'[h].unreg_network > handles[h].unreg_network
           \/ handles'[h].unreg_workpool > handles[h].unreg_workpool
           \/ events[h].net_live /\ ~events'[h].net_live
           \/ events[h].work_live /\ ~events'[h].work_live) =>
            /\ Iterated(h) /\ handles'[h].act = "TryCloseConnection"
            /\ handles'[h].closing /\ ~handles'[h].caught
            /\ ~handles[h].io_closed /\ handles'[h].io_closed
            /\ handles'[h].next = "NONE"
            /\ events'[h] = NoEvents]_vars

\* TryCloseConnection, called for the TERMINATE of an action after a
\* wake-up, closed the transport and then unregistered both events.
C28_Witness ==
  \E h \in Handles :
    /\ handles[h].io_closed
    /\ handles[h].initial = "WAKEUP"
    /\ handles[h].current_state_ = "CLOSING"
    /\ handles[h].faulted = "none"
    /\ events[h] = NoEvents

\* C29: a command is with the executor, or the manual event is activated,
\* only for a handle in PROCESS whose transport is open and whose last
\* action is the Process that returned NEED_RESULT or the WaitForTerrier
\* after it; so Callback activates the manual event in PROCESS only, and
\* its assertion never fails.
C29_CallbackInProcessOnly ==
  /\ [](\A h \in Handles :
          /\ (executor[h] \/ events[h].work_active) =>
               /\ handles[h].current_state_ = "PROCESS"
               /\ handles[h].act \in {"Process", "WaitForTerrier"}
               /\ ~handles[h].io_closed
               /\ events[h].work_live
          /\ handles[h].pc # "fatal")
  /\ [][\A h \in Handles :
          (~events[h].work_active /\ events'[h].work_active) =>
            /\ executor[h] /\ ~executor'[h]
            /\ handles[h].current_state_ = "PROCESS"
            /\ handles'[h] = handles[h]]_vars

\* The executor completed the command and called Callback while the owning
\* thread was still inside Accept, before WaitForTerrier.
C29_Witness ==
  \E h \in Handles :
    /\ events[h].work_active
    /\ handles[h].pc = "accept"
    /\ handles[h].next = "NEED_RESULT"

\* The transitions each action returns according to its documentation, by
\* the state in which Accept looks them up.
Outcomes ==
     "READ"    :> {"NEED_READ", "NEED_READ_TIMEOUT", "NEED_WRITE", "PROCEED", "TERMINATE"}
  @@ "PROCESS" :> {"NEED_READ", "NEED_READ_TIMEOUT", "NEED_RESULT", "PROCEED", "TERMINATE"}
  @@ "WRITE"   :> {"NEED_READ", "NEED_WRITE", "PROCEED", "TERMINATE"}
  @@ "CLOSING" :> {"NEED_READ", "NEED_WRITE", "TERMINATE"}

\* C30: Delta is defined for every documented outcome of TryRead in READ,
\* of Process in PROCESS, of TryWrite in WRITE and of TryCloseConnection in
\* CLOSING; with collaborators that keep to these outcomes every transition
\* an action leaves in `next` is one of them, and no lookup of Accept raises
\* the undefined-transition error.
C30_OutcomesDefined ==
  /\ \A s \in ConnState : \A t \in Outcomes[s] : Delta(s, t) # Undefined
  /\ \A h \in Handles :
        /\ InAccept(h) => Lookup(h) # Undefined
        /\ (handles[h].pc = "accept"
              /\ handles[h].act \in {"TryRead", "Process", "TryWrite", "TryCloseConnection"}) =>
             handles[h].next \in Outcomes[handles[h].current_state_]
        /\ handles[h].pc # "fatal"

\* TryCloseConnection returned the NEED_WRITE of a close that would block,
\* and the lookup in CLOSING is defined.
C30_Witness ==
  \E h \in Handles :
    /\ handles[h].pc = "accept"
    /\ handles[h].act = "TryCloseConnection"
    /\ handles[h].next = "NEED_WRITE"
    /\ Lookup(h) = TR("WRITE", "WaitForWrite")

\* The actions after which Accept returns: they return NONE.
ParkingActions == WaitActions \cup {"WaitForTerrier", "TryCloseConnection"}

\* C31: a handle that a call of Accept left parked was parked by a Wait*
\* action or by a TryCloseConnection that closed the transport, and its
\* registrations fit its state: in READ and WRITE the network event is added,
\* in PROCESS the network event is not added and the manual event
\* is the one event left in the event base, in CLOSING the transport is closed
\* and neither event is in the event base.
C31_ParkedConsistently ==
  \A h \in Handles :
    (handles[h].pc = "idle" /\ handles[h].initial # "none") =>
      /\ handles[h].act \in ParkingActions
      /\ handles[h].next = "NONE"
      /\ handles[h].act = "TryCloseConnection" <=> handles[h].current_state_ = "CLOSING"
      /\ handles[h].act = "WaitForTerrier" <=> handles[h].current_state_ = "PROCESS"
      /\ handles[h].current_state_ \in {"READ", "WRITE"} =>
           /\ events[h].net_live /\ events[h].net_added
           /\ ~handles[h].io_closed
      /\ handles[h].current_state_ = "PROCESS" =>
           /\ events[h].net_live /\ ~events[h].net_added /\ ~events[h].net_timeout
           /\ events[h].work_live
           /\ ~handles[h].io_closed
      /\ handles[h].current_state_ = "CLOSING" =>
           /\ handles[h].io_closed
           /\ ~events[h].net_live /\ ~events[h].net_added
           /\ ~events[h].work_live /\ ~events[h].work_active

\* Accept returned after a close that would block was followed by a flush
\* that would block: the handle is parked in WRITE by WaitForWrite, with the
\* network event added for writing.
C31_Witness ==
  \E h \in Handles :
    /\ handles[h].pc = "idle"
    /\ handles[h].closing
    /\ handles[h].current_state_ = "WRITE"
    /\ handles[h].act = "WaitForWrite"
    /\ events[h].net_added
    /\ events[h].net_flags = "WRITE"

\* The transitions HandleEvent starts Accept with.
HandleEventTransitions == {"WAKEUP", "TERMINATE"}

\* C32: WAKEUP and TERMINATE have an entry in the table of each of the four
\* states; so for a handle parked in any state and any flags of the event,
\* HandleEvent starts Accept with a transition whose lookup is defined,
\* and the first lookup of a call of Accept started by HandleEvent does not
\* raise the "Undefined transition" error.
C32_FirstLookupDefined ==
  /\ \A s \in ConnState, t \in HandleEventTransitions : Delta(s, t) # Undefined
  /\ \A h \in Handles :
       /\ handles[h].pc = "idle" =>
            \A flags \in EventFlags :
              LET c == HandleEvent(handles[h], flags) IN
              /\ c.pc = "accept"
              /\ c.next \in HandleEventTransitions
              /\ Delta(c.current_state_, c.next) # Undefined
       /\ (InAccept(h) /\ handles[h].next = handles[h].initial
                       /\ handles[h].initial \in HandleEventTransitions) =>
            Lookup(h) # Undefined

\* HandleEvent started Accept with WAKEUP on a handle parked in CLOSING
\* (a close that returned without closing): the first lookup, not yet made,
\* is that of CLOSING and WAKEUP.
C32_Witness ==
  \E h \in Handles :
    /\ handles[h].pc = "accept"
    /\ handles[h].initial = "WAKEUP"
    /\ handles[h].next = "WAKEUP"
    /\ handles[h].current_state_ = "CLOSING"
    /\ handles[h].act = "TryCloseConnection"
    /\ Lookup(h) = TR("CLOSING", "TryCloseConnection")

\* C33: when the lookup of an iteration of Accept raises the "Undefined
\* transition" error, current_state_ keeps the state the pair was looked up
\* in (the pair is still the undefined one), no action function
\* has run (the last action, its records, the transport and the handle's
\* event pointers are as before) and the events of the handle in the event
\* base are as before.  (A step that takes a command from the executor is a
\* step of the executor's Callback, not of Accept.)
C33_UndefinedLeavesState ==
  [][\A h \in Handles :
       (InAccept(h) /\ Lookup(h) = Undefined /\ Moved(h) /\ UNCHANGED executor) =>
         /\ handles'[h].pc = "fatal"
         /\ handles'[h].current_state_ = handles[h].current_state_
         /\ Delta(handles'[h].current_state_, handles'[h].next) = Undefined
         /\ handles'[h].act = handles[h].act
         /\ handles'[h].emit = handles[h].emit
         /\ handles'[h].io_closed = handles[h].io_closed
         /\ handles'[h].network_event_ = handles[h].network_event_
         /\ handles'[h].workpool_event_ = handles[h].workpool_event_
         /\ handles'[h].unreg_network = handles[h].unreg_network
         /\ handles'[h].unreg_workpool = handles[h].unreg_workpool
         /\ events'[h] = events[h]]_vars

\* Accept was called with NEED_RESULT on a handle parked in READ: the first
\* lookup raised the error, the handle is still in READ and its network
\* event is still added as the last Wait action left it.
C33_Witness ==
  \E h \in Handles :
    /\ handles[h].pc = "fatal"
    /\ handles[h].initial = "NEED_RESULT"
    /\ Pair(h) = <<"READ", "NEED_RESULT">>
    /\ handles[h].act \in WaitActions
    /\ events[h].net_live /\ events[h].net_added
    /\ ~handles[h].io_closed

\* C34: each call of TryCloseConnection calls the interpreter's Teardown
\* once, whatever the connection went through before and whatever Close then
\* returns, and calls it before Close: when Teardown raises, the call ends
\* with the exception and with nothing of Close or of the removal of the
\* events done.  So the calls of Teardown of a connection are as many as its
\* calls of TryCloseConnection (counted up to MaxTeardown), not one.
C34_TeardownPerAttempt ==
  /\ [][\A h \in Handles :
          (InAccept(h) /\ Lookup(h).action = "TryCloseConnection"
                       /\ Moved(h) /\ UNCHANGED executor) =>
            /\ handles'[h].act = "TryCloseConnection"
            /\ handles'[h].teardowns = Min(handles[h].teardowns + 1, MaxTeardown)]_vars
  /\ [](\A h \in Handles :
          /\ handles[h].closing <=> handles[h].teardowns > 0
          /\ (InAccept(h) /\ Lookup(h).action = "TryCloseConnection") =>
               \A r \in Documented.close, ub \in UBOutcomes :
                 LET c    == Entered(h)
                     torn == [c EXCEPT !.emit = "none", !.closing = TRUE,
                                       !.teardowns = Min(@ + 1, MaxTeardown)]
                     ok   == TryCloseConnection(c, events[h], executor[h], TRUE, r, ub)
                     bad  == TryCloseConnection(c, events[h], executor[h], FALSE, r, ub) IN
                 /\ bad = Ret(torn, events[h], executor[h], "FAULT")
                 /\ ok.c.teardowns = torn.teardowns
                 /\ r # "PROCEED" => ok = Ret(torn, events[h], executor[h], r))

\* The second TryCloseConnection of a connection whose first Close would
\* block: Teardown was called a second time, and Close would block again.
C34_Witness ==
  \E h \in Handles :
    /\ handles[h].pc = "accept"
    /\ handles[h].act = "TryCloseConnection"
    /\ handles[h].teardowns = 2
    /\ handles[h].next \in {"NEED_READ", "NEED_WRITE"}
    /\ ~handles[h].io_closed

\* The entries the task has dequeued, and their callbacks in the order of
\* the queue.
Dequeued == task.produced - Len(task.filled_buffer_queue_)

RECURSIVE CallbacksUpTo(_)
CallbacksUpTo(n) == IF n = 0 THEN <<>> ELSE CallbacksUpTo(n - 1) \o CommitCallbacks(n)

InvokedCallbacks == [k \in 1 .. Len(task.invoked) |-> task.invoked[k].cb]

InLogFile(i, n) == \E p \in 1 .. n : task.log_file[p] = i

\* C35: the callbacks the task has taken from the filled buffer queue are, in
\* the order of the queue, those it has called followed by those in
\* commit_callbacks_, so none is called twice and none is dropped, and once
\* the task has exited each has been called once.  A callback waits in
\* commit_callbacks_ only with the buffer of its entry flushed; it was
\* called only with that buffer in the part of the log file Persist was
\* called for; when nothing was written since the last persist the whole log
\* file is persisted.  Every PersistLogFile persists the whole log file when
\* current_data_written_ is positive and leaves commit_callbacks_ empty.
C35_CallbacksAfterPersist ==
  /\ [](/\ InvokedCallbacks \o task.commit_callbacks_ = CallbacksUpTo(Dequeued)
        /\ \A k \in 1 .. Len(task.commit_callbacks_) :
             LET i == task.commit_callbacks_[k][1] IN
             HasBuffer(i) => InLogFile(i, Len(task.log_file))
        /\ \A k \in 1 .. Len(task.invoked) :
             LET i == task.invoked[k].cb[1] IN
             /\ task.invoked[k].durable
             /\ HasBuffer(i) => InLogFile(i, task.persisted)
        /\ \A k1, k2 \in 1 .. Len(task.invoked) :
             task.invoked[k1].cb = task.invoked[k2].cb => k1 = k2
        /\ (task.pc # "not_started" /\ task.current_data_written_ = 0) =>
             task.persisted = Len(task.log_file)
        /\ task.pc = "exited" =>
             /\ task.commit_callbacks_ = <<>>
             /\ InvokedCallbacks = CallbacksUpTo(Dequeued))
  /\ [][/\ (task.pc = "persist" /\ task'.pc = "test") =>
             \/ task' = [task EXCEPT !.pc = "test"] /\ ~ShouldPersist(task, FALSE)
             \/ /\ task'.commit_callbacks_ = <<>>
                /\ InvokedCallbacks' = InvokedCallbacks \o task.commit_callbacks_
                /\ task.current_data_written_ > 0 => task'.persisted = Len(task.log_file)
                /\ task.current_data_written_ = 0 => task'.persisted = task.persisted
        /\ (task.pc = "final_persist" /\ task'.pc = "exited") =>
             /\ task'.commit_callbacks_ = <<>>
             /\ InvokedCallbacks' = InvokedCallbacks \o task.commit_callbacks_
             /\ task.current_data_written_ > 0 => task'.persisted = Len(task.log_file)]_vars

\* In the loop, the callbacks of the first entry were called with its buffer
\* persisted, and the callback of the second entry, which has no buffer, was
\* taken later and waits for the next PersistLogFile.
C35_Witness ==
  /\ task.pc = "persist"
  /\ Len(task.invoked) = 2
  /\ task.invoked[1].cb = <<1, 1>>
  /\ task.invoked[1].durable
  /\ task.persisted = 1
  /\ task.commit_callbacks_ = <<<<2, 1>>>>
  /\ task.current_data_written_ = 0

\* The number of positions of the sequence s that hold x.
Count(s, x) == Cardinality({p \in 1 .. Len(s) : s[p] = x})

\* C36: once Terminate was called the task exits (when it was called before
\* RunTask, after the task has started: Terminate leaves its wait only with
\* the task started and run_task_ stays false afterwards).  When the task has
\* exited, every entry that was enqueued before it left its loop has been
\* dequeued, its buffer flushed once, persisted and enqueued to the empty buffer
\* queue once, and each of its callbacks called once.
C36_TerminateDrains ==
  /\ (task.terminate # "none") ~> (task.pc = "exited")
  /\ [][(task.terminate = "waiting" /\ task'.terminate = "done") =>
          /\ task.pc # "not_started" /\ task.run_task_
          /\ ~task'.run_task_]_vars
  /\ [](/\ task.terminate = "done" => task.pc # "not_started" /\ ~task.run_task_
        /\ (task.terminate = "waiting" /\ task.pc = "not_started") => ~ENABLED TerminateSignals
        /\ task.pc = "exited" =>
             /\ task.terminate = "done"
             /\ task.at_exit <= Dequeued
             /\ \A i \in 1 .. task.at_exit :
                  /\ HasBuffer(i) =>
                       /\ Count(task.log_file, i) = 1
                       /\ InLogFile(i, task.persisted)
                       /\ Count(task.empty_buffer_queue_, i) = 1
                  /\ ~HasBuffer(i) =>
                       Count(task.log_file, i) = 0 /\ Count(task.empty_buffer_queue_, i) = 0
                  /\ \A j \in 1 .. Len(CommitCallbacks(i)) :
                       Count(InvokedCallbacks, CommitCallbacks(i)[j]) = 1)

\* Terminate stopped the task in its first iteration: the task has exited,
\* all entries were enqueued before it left the loop, every buffer is in the
\* persisted log file and back in the empty buffer queue, and every callback
\* was called.
C36_Witness ==
  /\ task.pc = "exited"
  /\ task.terminate = "done"
  /\ task.at_exit = MaxEntries
  /\ task.first_iteration
  /\ Len(task.invoked) = Len(CallbacksUpTo(MaxEntries))
  /\ task.persisted = Len(task.log_file)
  /\ task.empty_buffer_queue_ = task.log_file

\* C37 as stated: after a wait that was not signalled the next interval is
\* twice the current one, after a signalled wait it is persist_interval_,
\* and from the second iteration on the interval is at most max_sleep.
C37_IntervalDoublesOrResets ==
  /\ [][(task.pc = "wait" /\ task'.pc = "write") =>
          /\ ~task'.signaled => task'.next_sleep = task.curr_sleep * 2
          /\ task'.signaled => task'.next_sleep = task.persist_interval_]_vars
  /\ [](~task.first_iteration => task.curr_sleep <= max_sleep)

\* C37, amended: after a wait that was not signalled the next interval is the
\* smaller of twice the current one and max_sleep, after a signalled wait the
\* smaller of persist_interval_ and max_sleep; the wait is signalled exactly
\* when a flush is forced, a buffer is in the queue or the task is stopped;
\* each iteration waits for the interval the iteration before it computed,
\* the first one for persist_interval_, whatever its size; so from the second
\* iteration on the interval is at most max_sleep (10000 microseconds).
C37_IntervalCapped ==
  /\ [][/\ (task.pc = "wait" /\ task'.pc = "write") =>
             /\ task'.signaled <=> Signaled(task)
             /\ task'.curr_sleep = task.curr_sleep
             /\ ~task'.signaled =>
                  task'.next_sleep = (IF task.curr_sleep * 2 < max_sleep
                                      THEN task.curr_sleep * 2 ELSE max_sleep)
             /\ task'.signaled =>
                  task'.next_sleep = (IF task.persist_interval_ < max_sleep
                                      THEN task.persist_interval_ ELSE max_sleep)
        /\ (task.pc = "test" /\ task'.pc = "wait") =>
             task'.curr_sleep = task.next_sleep /\ task'.next_sleep = task.next_sleep
        /\ task'.persist_interval_ = task.persist_interval_]_vars
  /\ [](/\ task.first_iteration => task.curr_sleep = task.persist_interval_
        /\ ~task.first_iteration => task.curr_sleep <= max_sleep
        /\ task.pc # "not_started" => task.next_sleep <= max_sleep \/ task.pc = "wait")

\* A later iteration of a task configured with more than max_sleep: the wait
\* was signalled and the next interval is max_sleep, not persist_interval_.
C37_Witness ==
  /\ task.pc = "write"
  /\ ~task.first_iteration
  /\ task.signaled
  /\ task.persist_interval_ > max_sleep
  /\ task.curr_sleep = max_sleep
  /\ task.next_sleep = max_sleep

\* The records of the other object that fit into this object.
Fit(this, other) ==
  IF Len(this) >= NetworkCapacity THEN 0
  ELSE IF Len(other) <= NetworkCapacity - Len(this) THEN Len(other)
  ELSE NetworkCapacity - Len(this)

\* C38: for any two queues, Aggregate leaves the queue of the other object
\* empty and leaves in this object its own records followed by the first
\* records of the other object, in their order, as many as fit below the
\* capacity (none when this object already holds the capacity or more); the
\* remaining records of the other object are in neither queue, and this
\* object has no fewer records than before.  The same holds of every
\* call made on the two objects.
C38_AggregateMovesPrefix ==
  /\ \A this \in {metric.network_data_, metric.pre_this},
        other \in {metric.other, metric.pre_other} :
       LET r == Aggregate(this, other) IN
       /\ r.other = <<>>
       /\ r.this = this \o SubSeq(other, 1, Fit(this, other))
       /\ Len(r.this) >= Len(this)
       /\ Len(r.this) <= NetworkCapacity \/ r.this = this
       /\ Fit(this, other) < Len(other) => Len(r.this) >= NetworkCapacity
  /\ metric.op = "Aggregate" =>
       /\ metric.other = <<>>
       /\ metric.network_data_ =
            metric.pre_this \o SubSeq(metric.pre_other, 1, Fit(metric.pre_this, metric.pre_other))
       /\ Len(metric.network_data_) >= Len(metric.pre_this)

\* Aggregate was called with this object one record below the capacity and
\* two different records in the other object: the first was appended, the
\* second is gone.
C38_Witness ==
  /\ metric.op = "Aggregate"
  /\ Len(metric.pre_this) = NetworkCapacity - 1
  /\ metric.pre_other = <<"r1", "r2">>
  /\ metric.network_data_ = Append(metric.pre_this, "r1")
  /\ metric.other = <<>>

====
